---- MODULE Spec2Model ----
(***************************************************************************)
(* Model of pkg/infoschema/infoschema_v2.go: the versioned catalog (Data), *)
(* the snapshot view (infoschemaV2) and the V2 diff applier (Builder).     *)
(*                                                                         *)
(* Strings are modelled by small positive integers that keep their order   *)
(* (database "a" < "b" is 1 < 2), so that the btree orderings of the       *)
(* source can be evaluated.  A table handle (table.Table) is modelled by   *)
(* the descriptor (model.TableInfo) it was built from; where the identity  *)
(* of the handle object matters (SpecSF) it also carries the object, Obj.  *)
(***************************************************************************)
EXTENDS Integers, Sequences, FiniteSets, TLC

VARIABLES
    byName,            \* Data.byName            : btree of tableItem
    byID,              \* Data.byID              : btree of tableItem
    schemaMap,         \* Data.schemaMap         : btree of schemaItem
    schemaID2Name,     \* Data.schemaID2Name     : btree of schemaIDName
    tableCache,        \* Data.tableCache        : tableCacheKey -> table.Table
    pid2tid,           \* Data.pid2tid           : btree of partitionItem
    tableInfoResident, \* Data.tableInfoResident : btree of tableInfoItem
    versionTimestamps, \* Data.mu.versionTimestamps
    dbHeap,            \* the *model.DBInfo objects the schema items point to
    kv,                \* the metadata KV: its content at every schema version
    schemaMetaVersion, \* Builder.infoSchema.schemaMetaVersion
    pending,           \* the calls the applier still has to make for the current diff
    ddlLeft,           \* the diffs the DDL pipeline will still supply
    tsResult,          \* results of getVersionByTS calls (SpecTS)
    sf,                \* single-flight loads and their callers (SpecSF)
    specials,          \* Data.specials : name -> schemaTables of a special database
    aborted,           \* the versions whose diff the applier aborted with an error
    views,             \* the snapshot views readers hold (SpecClone)
    reads              \* the lookups made and the handles they loaded (SpecCache)

vars == <<byName, byID, schemaMap, schemaID2Name, tableCache, pid2tid,
          tableInfoResident, versionTimestamps, dbHeap, kv, schemaMetaVersion,
          pending, ddlLeft, tsResult, sf, specials, aborted, views, reads>>

catalogVars == <<byName, byID, schemaMap, schemaID2Name, tableCache, pid2tid,
                 tableInfoResident, dbHeap, kv, schemaMetaVersion, pending,
                 ddlLeft>>

----------------------------------------------------------------------------
(* Bounds of the model. *)

MaxDiffs == 4        \* diffs applied while readers run (Spec)
MaxDiffsDDL == 5     \* diffs applied by the applier alone (SpecDDL)
MaxTableID == 2      \* table ids 1..MaxTableID are allocated, in order
MaxDBID == 2         \* database ids 1..MaxDBID are allocated, in order
MaxLogLen == 3       \* entries of the version-timestamp log (SpecTS)
MaxLogVersion == 4   \* schema versions in the log
MaxTS == 3           \* timestamps in the log; queries go one beyond
NumCallers == 2      \* concurrent TableByID callers (SpecSF)
MaxFlashback == 1    \* "in flashback progress" errors the KV returns
MaxSpecialOps == 3   \* calls on the store with special databases (SpecSpecial)
MaxDiffsSchema == 5  \* diffs applied with schema changes (SpecSchema)
MaxDiffsClone == 3   \* diffs applied while views are cloned (SpecClone)
MaxViews == 2        \* snapshot views held at once (SpecClone)
MaxDiffsList == 5    \* diffs applied before tables are listed (SpecList)
MaxListTableID == 3  \* table ids allocated in SpecList
MaxDiffsAll == 4     \* schema diffs applied beside the registry (SpecAllSchemas)
MaxLoads == 2        \* handles loaded from the KV by the lookups (SpecCache)
MaxRetries == 3      \* retries of GetTable that are counted (SpecFlashback)

\* math.MaxInt64, the seed version of every descending walk.  TLC's integers
\* are 32 bits wide; the seed only has to exceed every real version.
MaxInt64 == 2147483647

\* autoid.SystemSchemaIDFlag (1 << 62 in the source), the bit of the ids of
\* the special databases and their tables, scaled like MaxInt64.
SystemSchemaIDFlag == 1073741824

\* util.InformationSchemaName.L, util.MetricSchemaName.L and
\* util.PerformanceSchemaName.L, in the order of the strings.
InformationSchemaName == 11
MetricSchemaName == 12
PerformanceSchemaName == 13

TableIDs == 1..MaxTableID
DBIDs == 1..MaxDBID
DBNames == {1, 2}
TableNames == {1, 2}

\* Partition ids of table id: 10*id+1 and 10*id+2 (partition ids are global).
PartitionIDs == UNION {{10 * t + 1, 10 * t + 2} : t \in TableIDs}

\* model.TableInfo.  TTL stands for TTLInfo != nil, Parts for the ids of
\* Partition.Definitions (empty: GetPartitionInfo() == nil).
NoTable == [ID |-> 0, Name |-> 0, DBID |-> 0, TTL |-> FALSE, Parts |-> {}]
\* model.DBInfo.  Charset stands for Charset and Collate, which change
\* together; Placement for PlacementPolicyRef.
NoDB == [ID |-> 0, Name |-> 0, Charset |-> 0, Placement |-> 0]

----------------------------------------------------------------------------
(* The ordered index (tidwall/btree BTreeG) and the orderings of the source. *)

compareByID(a, b) ==
    IF a.tableID < b.tableID THEN TRUE
    ELSE IF a.tableID > b.tableID THEN FALSE
    ELSE a.schemaVersion < b.schemaVersion

compareByName(a, b) ==
    IF a.dbName < b.dbName THEN TRUE
    ELSE IF a.dbName > b.dbName THEN FALSE
    ELSE IF a.tableName < b.tableName THEN TRUE
    ELSE IF a.tableName > b.tableName THEN FALSE
    ELSE a.schemaVersion < b.schemaVersion

compareTableInfoItem(a, b) ==
    IF a.dbName < b.dbName THEN TRUE
    ELSE IF a.dbName > b.dbName THEN FALSE
    ELSE IF a.tableID < b.tableID THEN TRUE
    ELSE IF a.tableID > b.tableID THEN FALSE
    ELSE a.schemaVersion < b.schemaVersion

comparePartitionItem(a, b) ==
    IF a.partitionID < b.partitionID THEN TRUE
    ELSE IF a.partitionID > b.partitionID THEN FALSE
    ELSE a.schemaVersion < b.schemaVersion

\* schemaItem.Name() is dbInfo.Name.L; the item carries it as field name.
compareSchemaItem(a, b) ==
    IF a.name < b.name THEN TRUE
    ELSE IF a.name > b.name THEN FALSE
    ELSE a.schemaVersion < b.schemaVersion

compareSchemaByID(a, b) ==
    IF a.id < b.id THEN TRUE
    ELSE IF a.id > b.id THEN FALSE
    ELSE a.schemaVersion < b.schemaVersion

\* The ordering a tree was built with (btree.NewBTreeG(less) in NewData),
\* named by its function.
Less(less, a, b) ==
    CASE less = "compareByID" -> compareByID(a, b)
      [] less = "compareByName" -> compareByName(a, b)
      [] less = "compareTableInfoItem" -> compareTableInfoItem(a, b)
      [] less = "comparePartitionItem" -> comparePartitionItem(a, b)
      [] less = "compareSchemaItem" -> compareSchemaItem(a, b)
      [] less = "compareSchemaByID" -> compareSchemaByID(a, b)

\* BTreeG.Set: insert, or replace the item that is equal under the ordering.
BtSet(bt, less, item) ==
    {x \in bt : Less(less, x, item) \/ Less(less, item, x)} \cup {item}

\* The items of s in descending order.
SortDesc(s, less) ==
    [i \in 1..Cardinality(s) |->
        CHOOSE x \in s : Cardinality({y \in s : Less(less, x, y)}) = i - 1]

\* BTreeG.Descend(pivot, iter): the items <= pivot, in descending order.
Descend(bt, less, pivot) ==
    SortDesc({x \in bt : ~Less(less, pivot, x)}, less)

\* BTreeG.Reverse(iter): all items, in descending order.
Reverse(bt, less) == SortDesc(bt, less)

----------------------------------------------------------------------------
(* The catalog store (Data) as a value, and its mutation primitives. *)

\* The Data struct of the current state.
Data ==
    [byName |-> byName, byID |-> byID, schemaMap |-> schemaMap,
     schemaID2Name |-> schemaID2Name, tableCache |-> tableCache,
     pid2tid |-> pid2tid, tableInfoResident |-> tableInfoResident,
     dbHeap |-> dbHeap, specials |-> specials]

\* NewData(): empty indices and an empty cache.
NewData ==
    [byName |-> {}, byID |-> {}, schemaMap |-> {}, schemaID2Name |-> {},
     tableCache |-> <<>>, pid2tid |-> {}, tableInfoResident |-> {},
     dbHeap |-> <<>>, specials |-> <<>>]

tableCacheKey(tableID, schemaVersion) == <<tableID, schemaVersion>>

\* Sieve.Set / Sieve.Remove / Sieve.Get of the table cache.  The capacity set
\* by NewData (1024*1024 MB) is never reached here; entries leave the cache
\* through Remove only.
CacheSet(cache, key, tbl) ==
    [k \in DOMAIN cache \cup {key} |-> IF k = key THEN tbl ELSE cache[k]]

CacheRemove(cache, key) ==
    [k \in DOMAIN cache \ {key} |-> cache[k]]

CacheGet(cache, key) ==
    IF key \in DOMAIN cache THEN [tbl |-> cache[key], found |-> TRUE]
    ELSE [tbl |-> NoTable, found |-> FALSE]

\* The attribute filters.  TiFlashReplica and PlacementPolicyRef are not part
\* of the modelled descriptor; TTL and partitioning are.
TTLAttribute(t) == t.TTL
PartitionAttribute(t) == t.Parts # {}
hasSpecialAttributes(t) == TTLAttribute(t) \/ PartitionAttribute(t)
AllSpecialAttribute(t) == hasSpecialAttributes(t)

Filters == {"TTL", "Partition", "All"}
ApplyFilter(f, t) ==
    CASE f = "TTL" -> TTLAttribute(t)
      [] f = "Partition" -> PartitionAttribute(t)
      [] OTHER -> AllSpecialAttribute(t)

\* The partition entries Data.add writes, one per definition.
addPartitions(p2t, item, tbl) ==
    {x \in p2t : ~(x.partitionID \in tbl.Parts /\ x.schemaVersion = item.schemaVersion)}
    \cup {[partitionID |-> def, schemaVersion |-> item.schemaVersion,
           tableID |-> tbl.ID, tomb |-> FALSE] : def \in tbl.Parts}

\* Data.add without the write to byName.
add_skipByName(d, item, tbl) ==
    [d EXCEPT
       !.byID = BtSet(@, "compareByID", item),
       !.tableCache = CacheSet(@, tableCacheKey(item.tableID, item.schemaVersion), tbl),
       !.pid2tid = addPartitions(@, item, tbl),
       !.tableInfoResident =
           IF hasSpecialAttributes(tbl)
           THEN BtSet(@, "compareTableInfoItem",
                      [dbName |-> item.dbName, tableID |-> item.tableID,
                       schemaVersion |-> item.schemaVersion, tableInfo |-> tbl,
                       tomb |-> FALSE])
           ELSE @]

\* Data.add(item, tbl)
add(d, item, tbl) ==
    [d EXCEPT
       !.byID = BtSet(@, "compareByID", item),
       !.byName = BtSet(@, "compareByName", item),
       !.tableCache = CacheSet(@, tableCacheKey(item.tableID, item.schemaVersion), tbl),
       !.pid2tid = addPartitions(@, item, tbl),
       !.tableInfoResident =
           IF hasSpecialAttributes(tbl)
           THEN BtSet(@, "compareTableInfoItem",
                      [dbName |-> item.dbName, tableID |-> item.tableID,
                       schemaVersion |-> item.schemaVersion, tableInfo |-> tbl,
                       tomb |-> FALSE])
           ELSE @]

\* Data.remove that writes no tomb to byName.
remove_noByName(d, item0) ==
    LET item == [item0 EXCEPT !.tomb = TRUE] IN
    [d EXCEPT
       !.byID = BtSet(@, "compareByID", item),
       !.tableInfoResident =
           BtSet(@, "compareTableInfoItem",
                 [dbName |-> item.dbName, tableID |-> item.tableID,
                  schemaVersion |-> item.schemaVersion, tableInfo |-> NoTable,
                  tomb |-> TRUE]),
       !.tableCache = CacheRemove(@, tableCacheKey(item.tableID, item.schemaVersion))]

\* Data.remove without the removal of the cache entry of the version.
remove_keepCache(d, item0) ==
    LET item == [item0 EXCEPT !.tomb = TRUE] IN
    [d EXCEPT
       !.byID = BtSet(@, "compareByID", item),
       !.byName = BtSet(@, "compareByName", item),
       !.tableInfoResident =
           BtSet(@, "compareTableInfoItem",
                 [dbName |-> item.dbName, tableID |-> item.tableID,
                  schemaVersion |-> item.schemaVersion, tableInfo |-> NoTable,
                  tomb |-> TRUE])]

\* Data.remove(item)
remove(d, item0) ==
    LET item == [item0 EXCEPT !.tomb = TRUE] IN
    [d EXCEPT
       !.byID = BtSet(@, "compareByID", item),
       !.byName = BtSet(@, "compareByName", item),
       !.tableInfoResident =
           BtSet(@, "compareTableInfoItem",
                 [dbName |-> item.dbName, tableID |-> item.tableID,
                  schemaVersion |-> item.schemaVersion, tableInfo |-> NoTable,
                  tomb |-> TRUE]),
       !.tableCache = CacheRemove(@, tableCacheKey(item.tableID, item.schemaVersion))]

\* Data.addDB(schemaVersion, dbInfo); dbInfo is a reference into dbHeap.
\* (dbInfo.Tables, which addDB clears, is not part of the modelled DBInfo.)
addDB(d, schemaVersion, dbInfo) ==
    [d EXCEPT
       !.schemaID2Name =
           BtSet(@, "compareSchemaByID",
                 [schemaVersion |-> schemaVersion, id |-> d.dbHeap[dbInfo].ID,
                  name |-> d.dbHeap[dbInfo].Name, tomb |-> FALSE]),
       !.schemaMap =
           BtSet(@, "compareSchemaItem",
                 [schemaVersion |-> schemaVersion, dbInfo |-> dbInfo,
                  name |-> d.dbHeap[dbInfo].Name, tomb |-> FALSE])]

\* Data.deleteDB that tombs the database in schemaMap only.
deleteDB_onlyMap(d, dbInfo, schemaVersion) ==
    [d EXCEPT
       !.schemaMap =
           BtSet(@, "compareSchemaItem",
                 [schemaVersion |-> schemaVersion, dbInfo |-> dbInfo,
                  name |-> d.dbHeap[dbInfo].Name, tomb |-> TRUE])]

\* Data.deleteDB(dbInfo, schemaVersion)
deleteDB(d, dbInfo, schemaVersion) ==
    [d EXCEPT
       !.schemaMap =
           BtSet(@, "compareSchemaItem",
                 [schemaVersion |-> schemaVersion, dbInfo |-> dbInfo,
                  name |-> d.dbHeap[dbInfo].Name, tomb |-> TRUE]),
       !.schemaID2Name =
           BtSet(@, "compareSchemaByID",
                 [schemaVersion |-> schemaVersion, id |-> d.dbHeap[dbInfo].ID,
                  name |-> d.dbHeap[dbInfo].Name, tomb |-> TRUE])]

\* model.schemaTables: the bundle of a special database, its *model.DBInfo
\* and its tables by name.
schemaTables(di, tables) == [dbInfo |-> di, tables |-> tables]

\* Data.addSpecialDB with Store in the place of LoadOrStore.
addSpecialDB_store(d, di, tables) ==
    LET name == d.dbHeap[di].Name IN
    [d EXCEPT !.specials =
        [n \in DOMAIN @ \cup {name} |->
            IF n = name THEN schemaTables(di, tables) ELSE @[n]]]

\* Data.addSpecialDB(di, tables): LoadOrStore keeps the value already stored.
addSpecialDB(d, di, tables) ==
    LET name == d.dbHeap[di].Name IN
    IF name \in DOMAIN d.specials THEN d
    ELSE [d EXCEPT !.specials =
             [n \in DOMAIN @ \cup {name} |->
                 IF n = name THEN schemaTables(di, tables) ELSE @[n]]]

----------------------------------------------------------------------------
(* The metadata KV. *)

\* The KV as read by a snapshot opened at ts.  Timestamps are counted in
\* schema versions: ts = V reads the KV as it was while V was current.
\* kv[v + 1] is the content at version v; a later ts reads the newest.
KVAt(ts) == kv[(IF ts >= Len(kv) THEN Len(kv) - 1 ELSE ts) + 1]

\* meta.GetTable(dbID, tblID) at ts: the descriptor, or NoTable (nil).
GetTable(ts, dbID, tblID) ==
    LET hit == {t \in KVAt(ts).tbls : t.ID = tblID /\ t.DBID = dbID} IN
    IF hit = {} THEN NoTable ELSE CHOOSE t \in hit : TRUE

\* meta.ListSimpleTables(dbID) at ts: the ids of the tables of the database.
ListSimpleTables(ts, dbID) == {t.ID : t \in {x \in KVAt(ts).tbls : x.DBID = dbID}}

\* meta.GetDatabase(id) at ts.
GetDatabase(ts, id) ==
    LET hit == {x \in KVAt(ts).dbs : x.ID = id} IN
    IF hit = {} THEN NoDB ELSE CHOOSE x \in hit : TRUE

\* loadTableInfo that returns a nil descriptor without an error.
loadTableInfo_nilOk(tblID, dbID, ts, schemaVersion) ==
    [res |-> GetTable(ts, dbID, tblID), err |-> FALSE]

\* loadTableInfo, every GetTable succeeding at once: the handle built from
\* the descriptor, or ErrTableNotExists when the descriptor is nil.
loadTableInfo(tblID, dbID, ts, schemaVersion) ==
    LET tblInfo == GetTable(ts, dbID, tblID) IN
    IF tblInfo = NoTable THEN [res |-> NoTable, err |-> TRUE]
    ELSE [res |-> tblInfo, err |-> FALSE]

----------------------------------------------------------------------------
(* The version-timestamp log. *)

\* The loop of getVersionByTSNoLock from index i (1-based) on, returning the
\* position in the log where the version is meant.
RECURSIVE getVersionByTSNoLock_index(_, _, _)
getVersionByTSNoLock_index(log, ts, i) ==
    IF i > Len(log) THEN [version |-> 0, ok |-> FALSE]
    ELSE LET vt == log[i] IN
         IF vt.timestamp = 0 \/ ts < vt.timestamp
         THEN getVersionByTSNoLock_index(log, ts, i + 1)
         ELSE IF i = 1 THEN [version |-> vt.schemaVersion, ok |-> TRUE]
         ELSE IF log[i - 1].schemaVersion = vt.schemaVersion + 1
                 /\ log[i - 1].timestamp > ts
         THEN [version |-> i - 1, ok |-> TRUE]
         ELSE [version |-> 0, ok |-> FALSE]

\* The loop of getVersionByTSNoLock from index i (1-based) on, without the
\* test that the newer neighbour's version is the next one.
RECURSIVE getVersionByTSNoLock_noContinuity(_, _, _)
getVersionByTSNoLock_noContinuity(log, ts, i) ==
    IF i > Len(log) THEN [version |-> 0, ok |-> FALSE]
    ELSE LET vt == log[i] IN
         IF vt.timestamp = 0 \/ ts < vt.timestamp
         THEN getVersionByTSNoLock_noContinuity(log, ts, i + 1)
         ELSE IF i = 1 THEN [version |-> vt.schemaVersion, ok |-> TRUE]
         ELSE IF log[i - 1].timestamp > ts
         THEN [version |-> vt.schemaVersion, ok |-> TRUE]
         ELSE [version |-> 0, ok |-> FALSE]

\* The loop of getVersionByTSNoLock from index i (1-based) on.
RECURSIVE getVersionByTSNoLock(_, _, _)
getVersionByTSNoLock(log, ts, i) ==
    IF i > Len(log) THEN [version |-> 0, ok |-> FALSE]
    ELSE LET vt == log[i] IN
         IF vt.timestamp = 0 \/ ts < vt.timestamp
         THEN getVersionByTSNoLock(log, ts, i + 1)
         ELSE IF i = 1 THEN [version |-> vt.schemaVersion, ok |-> TRUE]
         ELSE IF log[i - 1].schemaVersion = vt.schemaVersion + 1
                 /\ log[i - 1].timestamp > ts
         THEN [version |-> vt.schemaVersion, ok |-> TRUE]
         ELSE [version |-> 0, ok |-> FALSE]

\* Data.getVersionByTS(ts): the scan under the read lock.
getVersionByTS(log, ts) == getVersionByTSNoLock(log, ts, 1)

----------------------------------------------------------------------------
(* The snapshot view (infoschemaV2): lookups at schema version V, reading   *)
(* the KV at ts.  A lookup that touches the cache returns the cache it      *)
(* leaves behind.                                                           *)

zeroTableItem ==
    [dbName |-> 0, dbID |-> 0, tableName |-> 0, tableID |-> 0,
     schemaVersion |-> 0, tomb |-> FALSE]

eqByID(a, b) == a.tableID = b.tableID
eqByName(a, b) == a.dbName = b.dbName /\ a.tableName = b.tableName

\* The iterator of search, past the key test: a record newer than the
\* snapshot is skipped, otherwise the latest one seen is kept.
searchIter_noSkip(st, item, schemaVersion) ==
    IF ~st.ok THEN [ok |-> TRUE, target |-> item]
    ELSE IF item.schemaVersion > st.target.schemaVersion
         THEN [st EXCEPT !.target = item]
         ELSE st

searchIter(st, item, schemaVersion) ==
    IF item.schemaVersion > schemaVersion THEN st
    ELSE IF ~st.ok THEN [ok |-> TRUE, target |-> item]
    ELSE IF item.schemaVersion > st.target.schemaVersion
         THEN [st EXCEPT !.target = item]
         ELSE st

\* The key test search is called with, named by its function.
Match(matchFn, a, b) ==
    CASE matchFn = "eqByID" -> eqByID(a, b)
      [] matchFn = "eqByName" -> eqByName(a, b)

\* The Descend of search from position i of the items at or below end: it
\* stops at the first item of another key.
RECURSIVE searchWalk(_, _, _, _, _, _)
searchWalk(items, schemaVersion, end, matchFn, i, st) ==
    IF i > Len(items) THEN st
    ELSE IF ~Match(matchFn, end, items[i]) THEN st
    ELSE searchWalk(items, schemaVersion, end, matchFn, i + 1,
                    searchIter(st, items[i], schemaVersion))

\* The end of search: a tomb is "not found".
searchResult(r) == IF r.ok /\ r.target.tomb THEN [r EXCEPT !.ok = FALSE] ELSE r

\* search(bt, schemaVersion, end, matchFn), bt being ordered by less.
search(bt, less, schemaVersion, end, matchFn) ==
    searchResult(searchWalk(Descend(bt, less, end), schemaVersion, end, matchFn,
                            1, [ok |-> FALSE, target |-> zeroTableItem]))

tableIDIsValid(id) == id > 0

\* An infoschemaV2 value: the version of its *infoSchema, its ts, and its
\* *Data, the address of the one catalog store.
infoschemaV2(V, ts) == [schemaMetaVersion |-> V, ts |-> ts, Data |-> "Data"]

\* CloneAndUpdateTS that returns the copy with the timestamp it had.
CloneAndUpdateTS_keepTS(is, startTS) == is

\* infoschemaV2.CloneAndUpdateTS(startTS): tmp := *is; tmp.ts = startTS.
CloneAndUpdateTS(is, startTS) == [is EXCEPT !.ts = startTS]

\* IsSpecialDB(dbName)
IsSpecialDB(dbName) ==
    \/ dbName = InformationSchemaName
    \/ dbName = PerformanceSchemaName
    \/ dbName = MetricSchemaName

\* TableByName for a special database: the table of the registry.
TableByNameSpecial(d, schema, tbl) ==
    IF schema \in DOMAIN d.specials /\ tbl \in DOMAIN d.specials[schema].tables
    THEN [t |-> d.specials[schema].tables[tbl], err |-> FALSE,
          cache |-> d.tableCache, loaded |-> FALSE]
    ELSE [t |-> NoTable, err |-> TRUE, cache |-> d.tableCache, loaded |-> FALSE]

\* tableByID's "not found", the cache as it is.
tableAbsent(cache) == [val |-> NoTable, ok |-> FALSE, cache |-> cache, loaded |-> FALSE]

\* isTableVirtual(id): the id carries the bit of SystemSchemaIDFlag.
isTableVirtual(id) == (id \div SystemSchemaIDFlag) % 2 = 1

\* tableByID for a virtual id whose item itm the search found: the table of
\* the registry under the item's database and table name.
tableByIDVirtual(d, itm) ==
    IF itm.dbName \in DOMAIN d.specials
          /\ itm.tableName \in DOMAIN d.specials[itm.dbName].tables
    THEN [val |-> d.specials[itm.dbName].tables[itm.tableName], ok |-> TRUE,
          cache |-> d.tableCache, loaded |-> FALSE]
    ELSE tableAbsent(d.tableCache)

\* tableByID after its search returned r, the loaded handle being stored
\* under the snapshot's key (id, V).
tableByIDSearched_setNewKey(d, V, ts, id, noRefill, r) ==
    LET cache == d.tableCache
        itm == r.target
        oldKey == tableCacheKey(itm.tableID, itm.schemaVersion)
        old == CacheGet(cache, oldKey)
        ret == loadTableInfo(id, itm.dbID, ts, V)
    IN
    IF ~r.ok THEN tableAbsent(cache)
    ELSE IF isTableVirtual(id) THEN tableByIDVirtual(d, itm)
    ELSE IF old.found /\ old.tbl # NoTable
    THEN [val |-> old.tbl, ok |-> TRUE, loaded |-> FALSE,
          cache |-> IF noRefill THEN cache
                    ELSE CacheSet(cache, tableCacheKey(id, V), old.tbl)]
    ELSE IF ret.err \/ ret.res = NoTable
    THEN [tableAbsent(cache) EXCEPT !.loaded = TRUE]
    ELSE [val |-> ret.res, ok |-> TRUE, loaded |-> TRUE,
          cache |-> IF noRefill THEN cache
                    ELSE CacheSet(cache, tableCacheKey(id, V), ret.res)]

\* tableByID after its search returned r: the registry for a virtual id,
\* else the probe with the old key, and the load on a miss.
tableByIDSearched(d, V, ts, id, noRefill, r) ==
    LET cache == d.tableCache
        itm == r.target
        oldKey == tableCacheKey(itm.tableID, itm.schemaVersion)
        old == CacheGet(cache, oldKey)
        ret == loadTableInfo(id, itm.dbID, ts, V)
    IN
    IF ~r.ok THEN tableAbsent(cache)
    ELSE IF isTableVirtual(id) THEN tableByIDVirtual(d, itm)
    ELSE IF old.found /\ old.tbl # NoTable
    THEN [val |-> old.tbl, ok |-> TRUE, loaded |-> FALSE,
          cache |-> IF noRefill THEN cache
                    ELSE CacheSet(cache, tableCacheKey(id, V), old.tbl)]
    ELSE IF ret.err \/ ret.res = NoTable
    THEN [tableAbsent(cache) EXCEPT !.loaded = TRUE]
    ELSE [val |-> ret.res, ok |-> TRUE, loaded |-> TRUE,
          cache |-> IF noRefill THEN cache ELSE CacheSet(cache, oldKey, ret.res)]

\* infoschemaV2.tableByID(id, noRefill)
tableByID(d, V, ts, id, noRefill) ==
    LET fast == CacheGet(d.tableCache, tableCacheKey(id, V)) IN
    IF ~tableIDIsValid(id) THEN tableAbsent(d.tableCache)
    ELSE IF fast.found /\ fast.tbl # NoTable
    THEN [val |-> fast.tbl, ok |-> TRUE, cache |-> d.tableCache, loaded |-> FALSE]
    ELSE tableByIDSearched(d, V, ts, id, noRefill,
             search(d.byID, "compareByID", V,
                    [zeroTableItem EXCEPT !.tableID = id, !.schemaVersion = MaxInt64],
                    "eqByID"))

\* infoschemaV2.TableByID(id)
TableByID(d, V, ts, id) == tableByID(d, V, ts, id, FALSE)

\* TableByName after its search returned r.
TableByNameSearched(d, V, ts, r) ==
    LET cache == d.tableCache
        itm == r.target
        oldKey == tableCacheKey(itm.tableID, itm.schemaVersion)
        old == CacheGet(cache, oldKey)
        ret == loadTableInfo(itm.tableID, itm.dbID, ts, V)
        absent == [t |-> NoTable, err |-> TRUE, cache |-> cache, loaded |-> FALSE]
    IN
    IF ~r.ok THEN absent
    ELSE IF old.found /\ old.tbl # NoTable
    THEN [t |-> old.tbl, err |-> FALSE, cache |-> cache, loaded |-> FALSE]
    ELSE IF ret.err THEN [absent EXCEPT !.loaded = TRUE]
    ELSE [t |-> ret.res, err |-> FALSE, loaded |-> TRUE,
          cache |-> CacheSet(cache, oldKey, ret.res)]

\* infoschemaV2.TableByName(ctx, schema, tbl), for a database that is not a
\* special one.  err stands for ErrTableNotExists or the load's error.
TableByName(d, V, ts, schema, tbl) ==
    IF IsSpecialDB(schema) THEN TableByNameSpecial(d, schema, tbl)
    ELSE TableByNameSearched(d, V, ts,
        search(d.byName, "compareByName", V,
               [zeroTableItem EXCEPT !.dbName = schema, !.tableName = tbl,
                                     !.schemaVersion = MaxInt64],
               "eqByName"))

\* EvictTable after its search returned r.
EvictTableSearched(d, V, r) ==
    IF ~r.ok THEN d.tableCache
    ELSE CacheRemove(CacheRemove(d.tableCache, tableCacheKey(r.target.tableID, V)),
                     tableCacheKey(r.target.tableID, r.target.schemaVersion))

\* infoschemaV2.EvictTable(schema, tbl): the cache it leaves.
EvictTable(d, V, schema, tbl) ==
    EvictTableSearched(d, V,
        search(d.byName, "compareByName", V,
               [zeroTableItem EXCEPT !.dbName = schema, !.tableName = tbl,
                                     !.schemaVersion = MaxInt64],
               "eqByName"))

\* SchemaByName taking the newest record of the name, whatever its version.
SchemaByName_newest(d, V, schema) ==
    LET items == Descend(d.schemaMap, "compareSchemaItem",
                         [schemaVersion |-> MaxInt64, dbInfo |-> 0,
                          name |-> schema, tomb |-> FALSE])
    IN  IF Len(items) = 0 \/ items[1].name # schema \/ items[1].tomb
        THEN [val |-> 0, ok |-> FALSE]
        ELSE [val |-> items[1].dbInfo, ok |-> TRUE]

\* The Descend of SchemaByName from position i of the items.
RECURSIVE SchemaByNameWalk(_, _, _, _)
SchemaByNameWalk(items, V, schema, i) ==
    IF i > Len(items) THEN [val |-> 0, ok |-> FALSE]
    ELSE IF items[i].name # schema THEN [val |-> 0, ok |-> FALSE]
    ELSE IF items[i].schemaVersion <= V
    THEN (IF ~items[i].tomb THEN [val |-> items[i].dbInfo, ok |-> TRUE]
          ELSE [val |-> 0, ok |-> FALSE])
    ELSE SchemaByNameWalk(items, V, schema, i + 1)

\* infoschemaV2.SchemaByName(schema): val is the *model.DBInfo (a reference
\* into dbHeap, 0 for nil).
SchemaByName(d, V, schema) ==
    IF IsSpecialDB(schema)
    THEN (IF schema \in DOMAIN d.specials
          THEN [val |-> d.specials[schema].dbInfo, ok |-> TRUE]
          ELSE [val |-> 0, ok |-> FALSE])
    ELSE SchemaByNameWalk(Descend(d.schemaMap, "compareSchemaItem",
                                  [schemaVersion |-> MaxInt64, dbInfo |-> 0,
                                   name |-> schema, tomb |-> FALSE]),
                          V, schema, 1)

\* The Descend of SchemaByID from position i of the items: the name.
RECURSIVE SchemaByIDWalk(_, _, _, _)
SchemaByIDWalk(items, V, id, i) ==
    IF i > Len(items) THEN [name |-> 0, ok |-> FALSE]
    ELSE IF items[i].id # id THEN [name |-> 0, ok |-> FALSE]
    ELSE IF items[i].schemaVersion <= V
    THEN (IF ~items[i].tomb THEN [name |-> items[i].name, ok |-> TRUE]
          ELSE [name |-> 0, ok |-> FALSE])
    ELSE SchemaByIDWalk(items, V, id, i + 1)

\* SchemaByID after the name was found: the lookup by name.
SchemaByIDNamed(d, V, r) ==
    IF ~r.ok THEN [val |-> 0, ok |-> FALSE] ELSE SchemaByName(d, V, r.name)

\* infoschemaV2.SchemaByID(id), for an id without the system-schema bit.
SchemaByID(d, V, id) ==
    SchemaByIDNamed(d, V,
        SchemaByIDWalk(Descend(d.schemaID2Name, "compareSchemaByID",
                               [schemaVersion |-> MaxInt64, id |-> id, name |-> 0,
                                tomb |-> FALSE]),
                       V, id, 1))

\* Data.specials.Range: the bundles of the registry.  sync.Map leaves the
\* order open; the model ranges in the order of the names.
specialsRange(d) ==
    LET RECURSIVE range(_)
        range(s) ==
            IF s = {} THEN <<>>
            ELSE LET n == CHOOSE x \in s : \A y \in s : x <= y
                 IN  <<d.specials[n].dbInfo>> \o range(s \ {n})
    IN  range(DOMAIN d.specials)

\* allSchemas that visits every entry of schemaMap at or below V that is not
\* a tomb.
allSchemas_noDedup(d, V) ==
    LET items == Reverse(d.schemaMap, "compareSchemaItem")
        RECURSIVE walk(_, _, _)
        walk(i, last, out) ==
            IF i > Len(items) THEN out
            ELSE LET item == items[i] IN
                 IF item.schemaVersion > V THEN walk(i + 1, last, out)
                 ELSE walk(i + 1, item.dbInfo,
                           IF ~item.tomb THEN Append(out, item.dbInfo) ELSE out)
    IN  walk(1, 0, <<>>) \o specialsRange(d)

\* infoschemaV2.allSchemas(visit): the DBInfos visited, in order, those of
\* schemaMap and then those of the registry.
allSchemas(d, V) ==
    LET items == Reverse(d.schemaMap, "compareSchemaItem")
        RECURSIVE walk(_, _, _)
        walk(i, last, out) ==
            IF i > Len(items) THEN out
            ELSE LET item == items[i] IN
                 IF item.schemaVersion > V THEN walk(i + 1, last, out)
                 ELSE IF last # 0 /\ d.dbHeap[last].Name = d.dbHeap[item.dbInfo].Name
                 THEN walk(i + 1, last, out)
                 ELSE walk(i + 1, item.dbInfo,
                           IF ~item.tomb THEN Append(out, item.dbInfo) ELSE out)
    IN  walk(1, 0, <<>>) \o specialsRange(d)

\* infoschemaV2.AllSchemas()
AllSchemas(d, V) == allSchemas(d, V)

\* infoschemaV2.AllSchemaNames()
AllSchemaNames(d, V) ==
    LET refs == allSchemas(d, V) IN [i \in DOMAIN refs |-> d.dbHeap[refs[i]].Name]

\* infoschemaV2.FindTableByPartitionID(partitionID): def is the id of the
\* partition definition found (0 for nil).
FindTableByPartitionID(d, V, ts, partitionID) ==
    LET items == Descend(d.pid2tid, "comparePartitionItem",
                         [partitionID |-> partitionID, schemaVersion |-> MaxInt64,
                          tableID |-> 0, tomb |-> FALSE])
        RECURSIVE walk(_)
        walk(i) ==
            IF i > Len(items) THEN [ok |-> FALSE, pi |-> 0]
            ELSE LET item == items[i] IN
                 IF item.partitionID # partitionID THEN [ok |-> FALSE, pi |-> 0]
                 ELSE IF item.schemaVersion > V THEN walk(i + 1)
                 ELSE [ok |-> ~item.tomb, pi |-> item.tableID]
        r == walk(1)
        none == [tbl |-> NoTable, db |-> 0, def |-> 0, cache |-> d.tableCache]
    IN
    IF ~r.ok THEN none
    ELSE
      LET t == TableByID(d, V, ts, r.pi) IN
      IF ~t.ok THEN [none EXCEPT !.cache = t.cache]
      ELSE
        LET db == SchemaByID(d, V, t.val.DBID) IN
        IF ~db.ok THEN [none EXCEPT !.cache = t.cache]
        ELSE [tbl |-> t.val, db |-> db.val,
              def |-> IF partitionID \in t.val.Parts THEN partitionID ELSE 0,
              cache |-> t.cache]

\* SchemaTables after SchemaByName returned dbInfo: the tables the KV
\* lists that tableByID (without refill) finds.
SchemaTablesOf(d, V, ts, dbInfo) ==
    IF ~dbInfo.ok THEN {}
    ELSE {r.val : r \in {x \in {tableByID(d, V, ts, id, TRUE) :
                                  id \in ListSimpleTables(ts, d.dbHeap[dbInfo.val].ID)} :
                           x.ok}}

\* infoschemaV2.SchemaTables(schema), with a KV that answers: the tables of
\* the registry for a registered special database, else the handles of the
\* tables the KV lists.
SchemaTables(d, V, ts, schema) ==
    IF IsSpecialDB(schema) /\ schema \in DOMAIN d.specials
    THEN {d.specials[schema].tables[n] : n \in DOMAIN d.specials[schema].tables}
    ELSE SchemaTablesOf(d, V, ts, SchemaByName(d, V, schema))

\* infoschemaV2.ListTablesWithSpecialAttribute(filter): the result buckets.
ListTablesWithSpecialAttribute(d, V, filter) ==
    LET items == Reverse(d.tableInfoResident, "compareTableInfoItem")
        RECURSIVE walk(_, _)
        walk(i, st) ==
            IF i > Len(items) THEN st
            ELSE LET item == items[i] IN
                 IF item.schemaVersion > V THEN walk(i + 1, st)
                 ELSE IF st.lastTableID # 0 /\ st.lastTableID = item.tableID
                 THEN walk(i + 1, st)
                 ELSE
                   LET st1 == [st EXCEPT !.lastTableID = item.tableID] IN
                   IF item.tomb THEN walk(i + 1, st1)
                   ELSE IF ~ApplyFilter(filter, item.tableInfo) THEN walk(i + 1, st1)
                   ELSE IF st1.currDB = 0
                   THEN walk(i + 1, [st1 EXCEPT !.currDB = item.dbName,
                              !.res = [DBName |-> item.dbName,
                                       TableInfos |-> <<item.tableInfo>>]])
                   ELSE IF st1.currDB = item.dbName
                   THEN walk(i + 1, [st1 EXCEPT
                              !.res.TableInfos = Append(@, item.tableInfo)])
                   ELSE walk(i + 1, [st1 EXCEPT
                              !.ret = Append(@, st1.res),
                              !.res = [DBName |-> item.dbName,
                                       TableInfos |-> <<item.tableInfo>>]])
        fin == walk(1, [ret |-> <<>>, currDB |-> 0, lastTableID |-> 0,
                        res |-> [DBName |-> 0, TableInfos |-> <<>>]])
    IN  IF Len(fin.res.TableInfos) > 0 THEN Append(fin.ret, fin.res) ELSE fin.ret

----------------------------------------------------------------------------
(* The diff applier (Builder, V2 paths).  A diff at version W is committed  *)
(* to the KV, then applied: the handler's calls on the catalog store are    *)
(* queued in pending and made one at a time, so that readers pinned at      *)
(* published versions interleave with them.  W is published when the last   *)
(* call has been made.                                                      *)

\* The newest version readers can pin.
published == IF pending = <<>> THEN schemaMetaVersion ELSE schemaMetaVersion - 1

\* The builder's snapshot reads the KV at the timestamp of the schema it was
\* initialised from (the previously published version).
builderTS == schemaMetaVersion - 1

\* Ids are allocated in increasing order and never reused.
SetMax(s) == IF s = {} THEN 0 ELSE CHOOSE x \in s : \A y \in s : y <= x
nextTableID == SetMax(UNION {{t.ID : t \in kv[v].tbls} : v \in DOMAIN kv}) + 1
nextDBID == SetMax(UNION {{x.ID : x \in kv[v].dbs} : v \in DOMAIN kv}) + 1

\* The KV after the DDL of the next version committed content new.
CommitKV(W, new) == Append(kv, new)

Call(op, db, id) == [op |-> op, db |-> db, id |-> id]

SetData(d) ==
    /\ byName' = d.byName
    /\ byID' = d.byID
    /\ schemaMap' = d.schemaMap
    /\ schemaID2Name' = d.schemaID2Name
    /\ tableCache' = d.tableCache
    /\ pid2tid' = d.pid2tid
    /\ tableInfoResident' = d.tableInfoResident
    /\ dbHeap' = d.dbHeap

\* The ids appendAffectedIDs collects for a table: its id, then the ids of
\* its partition definitions.
RECURSIVE SetToSeq(_)
SetToSeq(s) ==
    IF s = {} THEN <<>>
    ELSE LET m == CHOOSE x \in s : \A y \in s : x <= y
         IN <<m>> \o SetToSeq(s \ {m})

appendAffectedIDs(tbl) == <<tbl.ID>> \o SetToSeq(tbl.Parts)

RECURSIVE FlatMap(_, _)
FlatMap(seq, d) ==
    IF seq = <<>> THEN <<>>
    ELSE appendAffectedIDs(CHOOSE t \in d : t.ID = Head(seq)) \o FlatMap(Tail(seq), d)

\* The ids applyDropSchemaV2 collects from the tables of the database.
affectedIDs(tables) == FlatMap(SetToSeq({t.ID : t \in tables}), tables)

\* The applyDropTableV2 calls of applyDropSchemaV2, one per id.
dropCalls(di, tableIDs) ==
    [i \in 1..Len(tableIDs) |-> Call("dropTable", di, tableIDs[i])]

\* applyDropSchemaV2 after SchemaByID returned di, without the drop of the
\* tables of the database.
applyDropSchemaV2Of_onlyDB(d, W, ts, schemaID, di) ==
    IF ~di.ok THEN <<>>
    ELSE <<Call("deleteDB", di.val, schemaID)>>

\* applyDropSchemaV2 after SchemaByID returned di.
applyDropSchemaV2Of(d, W, ts, schemaID, di) ==
    IF ~di.ok THEN <<>>
    ELSE dropCalls(di.val, affectedIDs(SchemaTables(d, W, ts, d.dbHeap[di.val].Name)))
         \o <<Call("deleteDB", di.val, schemaID)>>

\* Builder.applyDropSchemaV2, up to its calls on the store: the calls it
\* makes, in order (none when the database is not visible).
applyDropSchemaV2(d, W, ts, schemaID) ==
    applyDropSchemaV2Of(d, W, ts, schemaID, SchemaByID(d, W, schemaID))

\* applyDropTableV2 after TableByID returned r, writing no tomb partition
\* entry.
applyDropTableV2Of_keepPartitions(d, W, dbInfo, r) ==
    LET table == r.val
        d1 == [d EXCEPT !.tableCache = r.cache]
    IN  IF ~r.ok THEN d1
        ELSE remove(d1, [dbName |-> d.dbHeap[dbInfo].Name,
                         dbID |-> d.dbHeap[dbInfo].ID,
                         tableName |-> table.Name, tableID |-> table.ID,
                         schemaVersion |-> W, tomb |-> FALSE])

\* applyDropTableV2 after TableByID returned r.
applyDropTableV2Of(d, W, dbInfo, r) ==
    LET table == r.val
        d1 == [d EXCEPT !.tableCache = r.cache]
        d2 == [d1 EXCEPT !.pid2tid =
                 {x \in @ : ~(x.partitionID \in table.Parts /\ x.schemaVersion = W)}
                 \cup {[partitionID |-> def, schemaVersion |-> W,
                        tableID |-> table.ID, tomb |-> TRUE] : def \in table.Parts}]
    IN  IF ~r.ok THEN d1
        ELSE remove(d2, [dbName |-> d.dbHeap[dbInfo].Name,
                         dbID |-> d.dbHeap[dbInfo].ID,
                         tableName |-> table.Name, tableID |-> table.ID,
                         schemaVersion |-> W, tomb |-> FALSE])

\* applyDropTableV2 without the tomb partition entries.
applyDropTableV2_noPartitionTombs(d, W, ts, dbInfo, tableID) ==
    LET r == TableByID(d, W, ts, tableID)
        table == r.val
        d1 == [d EXCEPT !.tableCache = r.cache]
    IN  IF ~r.ok THEN d1
        ELSE remove(d1, [dbName |-> d.dbHeap[dbInfo].Name,
                         dbID |-> d.dbHeap[dbInfo].ID,
                         tableName |-> table.Name, tableID |-> table.ID,
                         schemaVersion |-> W, tomb |-> FALSE])

\* Builder.applyDropTableV2(diff, dbInfo, tableID, affected)
applyDropTableV2(d, W, ts, dbInfo, tableID) ==
    applyDropTableV2Of(d, W, dbInfo, TableByID(d, W, ts, tableID))

\* applyCreateTable, V2 path: the descriptor is read from the KV at the
\* diff's version and the handle is added under the database's name.
applyCreateTable(d, W, dbInfo, tableID) ==
    LET tblInfo == GetTable(W, d.dbHeap[dbInfo].ID, tableID) IN
    IF tblInfo = NoTable THEN d
    ELSE add(d, [dbName |-> d.dbHeap[dbInfo].Name, dbID |-> d.dbHeap[dbInfo].ID,
                 tableName |-> tblInfo.Name, tableID |-> tableID,
                 schemaVersion |-> W, tomb |-> FALSE], tblInfo)

\* applyCreateSchema, V2 path: GetDatabase builds a new DBInfo object.
applyCreateSchema(d, W, schemaID) ==
    LET di == GetDatabase(W, schemaID)
        d1 == [d EXCEPT !.dbHeap = Append(@, di)]
    IN  IF di = NoDB THEN d ELSE addDB(d1, W, Len(d1.dbHeap))

\* allocByID(b, id): the lookup it makes refills the cache.
allocByID(d, W, ts, id) == TableByID(d, W, ts, id).cache

\* dropTableForUpdate: the database the old table is dropped from.
oldSchemaInfo(d, W, diff) == SchemaByID(d, W, diff.OldSchemaID)

\* applyCreateTables: the applyCreateTable calls of the diff, one per table
\* of the recovered database, made with the new DBInfo di.
applyCreateTables(W, di, schemaID) ==
    LET tableIDs == SetToSeq(ListSimpleTables(W, schemaID)) IN
    [i \in 1..Len(tableIDs) |-> Call("createTable", di, tableIDs[i])]

\* applyRecoverSchemaV2 after SchemaByID and GetDatabase, without the test
\* that the database is not there.
applyRecoverSchemaV2Of_noCheck(d, W, schemaID, old, di) ==
    LET d1 == [d EXCEPT !.dbHeap = Append(@, di)] IN
    IF di = NoDB THEN [err |-> "GetDatabase", d |-> d, calls |-> <<>>]
    ELSE [err |-> "", d |-> addDB(d1, W, Len(d1.dbHeap)),
          calls |-> applyCreateTables(W, Len(d1.dbHeap), schemaID)]

\* applyRecoverSchemaV2 after SchemaByID returned old and GetDatabase
\* returned di: the error, the store after addDB and the calls that follow.
applyRecoverSchemaV2Of(d, W, schemaID, old, di) ==
    LET d1 == [d EXCEPT !.dbHeap = Append(@, di)] IN
    IF old.ok THEN [err |-> "ErrDatabaseExists", d |-> d, calls |-> <<>>]
    ELSE IF di = NoDB THEN [err |-> "GetDatabase", d |-> d, calls |-> <<>>]
    ELSE [err |-> "", d |-> addDB(d1, W, Len(d1.dbHeap)),
          calls |-> applyCreateTables(W, Len(d1.dbHeap), schemaID)]

\* Builder.applyRecoverSchemaV2(m, diff)
applyRecoverSchemaV2(d, W, schemaID) ==
    applyRecoverSchemaV2Of(d, W, schemaID, SchemaByID(d, W, schemaID),
                           GetDatabase(W, schemaID))

\* applyModifySchemaCharsetAndCollateV2 after GetDatabase returned di and
\* SchemaByID returned newDBInfo: the field is written through the pointer
\* SchemaByID returned, di is a new DBInfo object.
applyModifySchemaCharsetAndCollateV2Of(d, W, di, newDBInfo) ==
    LET d1 == [d EXCEPT !.dbHeap[newDBInfo.val].Charset = di.Charset]
        d2 == [d1 EXCEPT !.dbHeap = Append(@, di)]
    IN  IF di = NoDB \/ ~newDBInfo.ok THEN d
        ELSE addDB(deleteDB(d2, Len(d2.dbHeap), W), W, newDBInfo.val)

\* Builder.applyModifySchemaCharsetAndCollateV2(m, diff)
applyModifySchemaCharsetAndCollateV2(d, W, schemaID) ==
    applyModifySchemaCharsetAndCollateV2Of(d, W, GetDatabase(W, schemaID),
                                           SchemaByID(d, W, schemaID))

\* applyModifySchemaDefaultPlacementV2 after GetDatabase and SchemaByID.
applyModifySchemaDefaultPlacementV2Of(d, W, di, newDBInfo) ==
    LET d1 == [d EXCEPT !.dbHeap[newDBInfo.val].Placement = di.Placement]
        d2 == [d1 EXCEPT !.dbHeap = Append(@, di)]
    IN  IF di = NoDB \/ ~newDBInfo.ok THEN d
        ELSE addDB(deleteDB(d2, Len(d2.dbHeap), W), W, newDBInfo.val)

\* Builder.applyModifySchemaDefaultPlacementV2(m, diff)
applyModifySchemaDefaultPlacementV2(d, W, schemaID) ==
    applyModifySchemaDefaultPlacementV2Of(d, W, GetDatabase(W, schemaID),
                                          SchemaByID(d, W, schemaID))

\* applyTableUpdateV2 after SchemaByID returned oldDBInfo, oldSchema being
\* what oldSchemaInfo returns to dropTableForUpdate for a rename.
applyTableUpdateV2Of(d, W, ts, diff, oldDBInfo, oldSchema) ==
    LET keep == tableIDIsValid(diff.OldTableID) /\ diff.OldTableID = diff.TableID
        dropDB == IF diff.Type = "RenameTable" /\ diff.OldSchemaID # diff.SchemaID
                  THEN oldSchema ELSE oldDBInfo
        drops == IF tableIDIsValid(diff.OldTableID)
                 THEN <<Call("dropTable", dropDB.val, diff.OldTableID)>> ELSE <<>>
        creates == IF tableIDIsValid(diff.TableID)
                   THEN <<Call("createTable", oldDBInfo.val, diff.TableID)>> ELSE <<>>
    IN  IF ~oldDBInfo.ok \/ ~dropDB.ok
        THEN [ok |-> FALSE, cache |-> d.tableCache, calls |-> <<>>]
        ELSE [ok |-> TRUE, calls |-> drops \o creates,
              cache |-> IF keep THEN allocByID(d, W, ts, diff.OldTableID)
                        ELSE d.tableCache]

\* Builder.applyTableUpdateV2, up to its calls on the store: ok, the cache
\* after allocByID, and the calls it makes, in order.
applyTableUpdateV2(d, W, ts, diff) ==
    applyTableUpdateV2Of(d, W, ts, diff, SchemaByID(d, W, diff.SchemaID),
                         oldSchemaInfo(d, W, diff))

----------------------------------------------------------------------------
(* Actions of the catalog specification. *)

EmptyKV == [dbs |-> {}, tbls |-> {}]

\* No version-timestamp log, no getVersionByTS call, no load in flight.
NoLoads == <<>>
InitOther ==
    /\ versionTimestamps = <<>>
    /\ tsResult = {}
    /\ sf = NoLoads
    /\ specials = NewData.specials
    /\ aborted = {}
    /\ views = <<>>
    /\ reads = <<>>

\* NewData() and a builder at version 0 over an empty KV.
InitCatalog ==
    /\ byName = NewData.byName
    /\ byID = NewData.byID
    /\ schemaMap = NewData.schemaMap
    /\ schemaID2Name = NewData.schemaID2Name
    /\ tableCache = NewData.tableCache
    /\ pid2tid = NewData.pid2tid
    /\ tableInfoResident = NewData.tableInfoResident
    /\ dbHeap = NewData.dbHeap
    /\ kv = <<EmptyKV>>
    /\ schemaMetaVersion = 0
    /\ pending = <<>>

Init == InitCatalog /\ InitOther /\ ddlLeft = MaxDiffs
InitDDL == InitCatalog /\ InitOther /\ ddlLeft = MaxDiffsDDL

\* The KV content the next diff starts from.
curKV == kv[Len(kv)]

CanStartDiff == pending = <<>> /\ ddlLeft > 0

\* The descriptors a table can be created with: plain, with TTL, or with
\* two partitions.
CreateKinds(id) ==
    {[TTL |-> FALSE, Parts |-> {}], [TTL |-> TRUE, Parts |-> {}],
     [TTL |-> FALSE, Parts |-> {10 * id + 1, 10 * id + 2}]}

\* The descriptor after an ALTER: TTL set or cleared, a partition dropped or
\* added.
Altered(t) ==
    IF t.Parts = {} THEN [t EXCEPT !.TTL = ~t.TTL]
    ELSE IF Cardinality(t.Parts) = 2 THEN [t EXCEPT !.Parts = {10 * t.ID + 1}]
    ELSE [t EXCEPT !.Parts = {10 * t.ID + 1, 10 * t.ID + 2}]

\* ApplyDiff for a CreateSchema diff.
DiffCreateSchema ==
    /\ CanStartDiff
    /\ nextDBID <= MaxDBID
    /\ \E name \in DBNames :
        /\ \A x \in curKV.dbs : x.Name # name
        /\ LET W == schemaMetaVersion + 1
               di == [ID |-> nextDBID, Name |-> name, Charset |-> 0, Placement |-> 0]
           IN  /\ kv' = CommitKV(W, [curKV EXCEPT !.dbs = @ \cup {di}])
               /\ schemaMetaVersion' = W
               /\ ddlLeft' = ddlLeft - 1
               /\ pending' = <<Call("createSchema", 0, di.ID)>>
    /\ UNCHANGED <<byName, byID, schemaMap, schemaID2Name, tableCache, pid2tid,
                   tableInfoResident, dbHeap, versionTimestamps, tsResult, sf, specials, aborted, views, reads>>

\* ApplyDiff for a DropSchema diff.
DiffDropSchema ==
    /\ CanStartDiff
    /\ \E x \in curKV.dbs :
        LET W == schemaMetaVersion + 1 IN
        /\ kv' = CommitKV(W, [dbs |-> curKV.dbs \ {x},
                              tbls |-> {t \in curKV.tbls : t.DBID # x.ID}])
        /\ schemaMetaVersion' = W
        /\ ddlLeft' = ddlLeft - 1
        /\ pending' = applyDropSchemaV2(Data, W, schemaMetaVersion, x.ID)
    /\ UNCHANGED <<byName, byID, schemaMap, schemaID2Name, tableCache, pid2tid,
                   tableInfoResident, dbHeap, versionTimestamps, tsResult, sf, specials, aborted, views, reads>>

\* The state after applyTableUpdateV2 returned r.
TableUpdateOf(r, newKV) ==
    /\ r.ok
    /\ kv' = CommitKV(schemaMetaVersion + 1, newKV)
    /\ schemaMetaVersion' = schemaMetaVersion + 1
    /\ ddlLeft' = ddlLeft - 1
    /\ tableCache' = r.cache
    /\ pending' = r.calls
    /\ UNCHANGED <<byName, byID, schemaMap, schemaID2Name, pid2tid,
                   tableInfoResident, dbHeap, versionTimestamps, tsResult, sf, specials, aborted, views, reads>>

\* ApplyDiff for a diff handled by applyTableUpdateV2, the DDL having left
\* newKV in the KV.
TableUpdate(diff, newKV) ==
    TableUpdateOf(applyTableUpdateV2(Data, schemaMetaVersion + 1, schemaMetaVersion,
                                     diff),
                  newKV)

Diff(type, schemaID, oldSchemaID, oldTableID, tableID) ==
    [Type |-> type, SchemaID |-> schemaID, OldSchemaID |-> oldSchemaID,
     OldTableID |-> oldTableID, TableID |-> tableID]

NameFree(db, name) == \A t \in curKV.tbls : ~(t.DBID = db /\ t.Name = name)

DiffCreateTable ==
    /\ CanStartDiff
    /\ nextTableID <= MaxTableID
    /\ \E x \in curKV.dbs, name \in TableNames, k \in CreateKinds(nextTableID) :
        /\ NameFree(x.ID, name)
        /\ LET t == [ID |-> nextTableID, Name |-> name, DBID |-> x.ID,
                     TTL |-> k.TTL, Parts |-> k.Parts]
           IN  TableUpdate(Diff("CreateTable", x.ID, x.ID, 0, t.ID),
                           [curKV EXCEPT !.tbls = @ \cup {t}])

DiffDropTable ==
    /\ CanStartDiff
    /\ \E t \in curKV.tbls :
        TableUpdate(Diff("DropTable", t.DBID, t.DBID, t.ID, 0),
                    [curKV EXCEPT !.tbls = @ \ {t}])

DiffAlterTable ==
    /\ CanStartDiff
    /\ \E t \in curKV.tbls :
        TableUpdate(Diff("AlterTable", t.DBID, t.DBID, t.ID, t.ID),
                    [curKV EXCEPT !.tbls = (@ \ {t}) \cup {Altered(t)}])

DiffRenameTable ==
    /\ CanStartDiff
    /\ \E t \in curKV.tbls, x \in curKV.dbs, name \in TableNames :
        /\ NameFree(x.ID, name)
        /\ x.ID = t.DBID \/ name = t.Name
        /\ TableUpdate(Diff("RenameTable", x.ID, t.DBID, t.ID, t.ID),
                       [curKV EXCEPT !.tbls =
                          (@ \ {t}) \cup {[t EXCEPT !.DBID = x.ID, !.Name = name]}])

DiffTruncateTable ==
    /\ CanStartDiff
    /\ nextTableID <= MaxTableID
    /\ \E t \in curKV.tbls :
        LET n == nextTableID
            t2 == [t EXCEPT !.ID = n,
                            !.Parts = {10 * n + (p - 10 * t.ID) : p \in t.Parts}]
        IN  TableUpdate(Diff("TruncateTable", t.DBID, t.DBID, t.ID, n),
                        [curKV EXCEPT !.tbls = (@ \ {t}) \cup {t2}])

\* The applier makes the next call of the diff it is applying.
ApplyCall(op) ==
    /\ pending # <<>>
    /\ Head(pending).op = op
    /\ pending' = Tail(pending)
    /\ UNCHANGED <<kv, schemaMetaVersion, ddlLeft, versionTimestamps, tsResult, sf, specials, aborted, views, reads>>

ApplyCreateSchema ==
    /\ ApplyCall("createSchema")
    /\ SetData(applyCreateSchema(Data, schemaMetaVersion, Head(pending).id))

ApplyDropTable ==
    /\ ApplyCall("dropTable")
    /\ SetData(applyDropTableV2(Data, schemaMetaVersion, builderTS,
                                Head(pending).db, Head(pending).id))

ApplyCreateTable ==
    /\ ApplyCall("createTable")
    /\ SetData(applyCreateTable(Data, schemaMetaVersion,
                                Head(pending).db, Head(pending).id))

ApplyDeleteDB ==
    /\ ApplyCall("deleteDB")
    /\ SetData(deleteDB(Data, Head(pending).db, schemaMetaVersion))

\* Readers: a snapshot pinned at a published version V, reading the KV at
\* the timestamp of V.  Only the calls that change the cache are steps.
ReaderVersions == 1..published

ReadOnly ==
    UNCHANGED <<byName, byID, schemaMap, schemaID2Name, pid2tid,
                tableInfoResident, dbHeap, kv, schemaMetaVersion, pending,
                ddlLeft, versionTimestamps, tsResult, sf, specials, aborted, views, reads>>

ReadTableByID ==
    /\ \E V \in ReaderVersions, id \in TableIDs :
        /\ tableCache' = TableByID(Data, V, V, id).cache
        /\ tableCache' # tableCache
    /\ ReadOnly

ReadTableByName ==
    /\ \E V \in ReaderVersions, schema \in DBNames, tbl \in TableNames :
        /\ tableCache' = TableByName(Data, V, V, schema, tbl).cache
        /\ tableCache' # tableCache
    /\ ReadOnly

DoEvictTable ==
    /\ \E V \in ReaderVersions, schema \in DBNames, tbl \in TableNames :
        /\ tableCache' = EvictTable(Data, V, schema, tbl)
        /\ tableCache' # tableCache
    /\ ReadOnly

Next ==
    \/ DiffCreateSchema
    \/ DiffDropSchema
    \/ DiffCreateTable
    \/ DiffDropTable
    \/ DiffAlterTable
    \/ DiffRenameTable
    \/ DiffTruncateTable
    \/ ApplyCreateSchema
    \/ ApplyDropTable
    \/ ApplyCreateTable
    \/ ApplyDeleteDB
    \/ ReadTableByID
    \/ ReadTableByName
    \/ DoEvictTable

Spec == Init /\ [][Next]_vars

\* The applier alone: no reader touches the cache.
NextDDL ==
    \/ DiffCreateSchema
    \/ DiffDropSchema
    \/ DiffCreateTable
    \/ DiffDropTable
    \/ DiffAlterTable
    \/ DiffRenameTable
    \/ DiffTruncateTable
    \/ ApplyCreateSchema
    \/ ApplyDropTable
    \/ ApplyCreateTable
    \/ ApplyDeleteDB

SpecDDL == InitDDL /\ [][NextDDL]_vars

----------------------------------------------------------------------------
(* The applier with the diffs that change a database.                       *)

InitSchema == InitCatalog /\ InitOther /\ ddlLeft = MaxDiffsSchema

\* The DDL committed database x as y; the handler op is to run for it.
SchemaUpdate(op, x, y) ==
    /\ kv' = CommitKV(schemaMetaVersion + 1,
                      [curKV EXCEPT !.dbs = (@ \ {x}) \cup {y}])
    /\ schemaMetaVersion' = schemaMetaVersion + 1
    /\ ddlLeft' = ddlLeft - 1
    /\ pending' = <<Call(op, 0, x.ID)>>
    /\ UNCHANGED <<byName, byID, schemaMap, schemaID2Name, tableCache, pid2tid,
                   tableInfoResident, dbHeap, versionTimestamps, tsResult, sf,
                   specials, aborted, views, reads>>

\* ApplyDiff for a ModifySchemaCharsetAndCollate diff.
DiffModifySchemaCharsetAndCollate ==
    /\ CanStartDiff
    /\ \E x \in curKV.dbs :
        SchemaUpdate("modifyCharset", x, [x EXCEPT !.Charset = 1 - @])

\* ApplyDiff for a ModifySchemaDefaultPlacement diff.
DiffModifySchemaDefaultPlacement ==
    /\ CanStartDiff
    /\ \E x \in curKV.dbs :
        SchemaUpdate("modifyPlacement", x, [x EXCEPT !.Placement = 1 - @])

ApplyModifySchemaCharsetAndCollate ==
    /\ ApplyCall("modifyCharset")
    /\ SetData(applyModifySchemaCharsetAndCollateV2(Data, schemaMetaVersion,
                                                    Head(pending).id))

ApplyModifySchemaDefaultPlacement ==
    /\ ApplyCall("modifyPlacement")
    /\ SetData(applyModifySchemaDefaultPlacementV2(Data, schemaMetaVersion,
                                                   Head(pending).id))

\* The last version at which the KV held a database of that id (0: none).
LastVersionOf(id) ==
    SetMax({v \in 1..(Len(kv) - 1) : GetDatabase(v, id) # NoDB})

\* The KV after RECOVER of the database id: its DBInfo and tables as they
\* were when it was last there; unchanged for a database that is there.
Recovered(id) ==
    LET v == LastVersionOf(id) IN
    [dbs |-> curKV.dbs \cup {GetDatabase(v, id)},
     tbls |-> curKV.tbls \cup {t \in KVAt(v).tbls : t.DBID = id}]

\* ApplyDiff for a RecoverSchema diff, of a dropped database whose name is
\* free or of a database that exists.
DiffRecoverSchema ==
    /\ CanStartDiff
    /\ \E id \in DBIDs :
        /\ LastVersionOf(id) # 0
        /\ \A x \in curKV.dbs :
              x.Name = GetDatabase(LastVersionOf(id), id).Name => x.ID = id
        /\ kv' = CommitKV(schemaMetaVersion + 1, Recovered(id))
        /\ schemaMetaVersion' = schemaMetaVersion + 1
        /\ ddlLeft' = ddlLeft - 1
        /\ pending' = <<Call("recoverSchema", 0, id)>>
    /\ UNCHANGED <<byName, byID, schemaMap, schemaID2Name, tableCache, pid2tid,
                   tableInfoResident, dbHeap, versionTimestamps, tsResult, sf,
                   specials, aborted, views, reads>>

\* The applier aborts the diff with an error: the calls left are not made
\* and the version is not published.
Abort ==
    /\ pending' = <<>>
    /\ aborted' = aborted \cup {schemaMetaVersion}
    /\ UNCHANGED <<kv, schemaMetaVersion, ddlLeft, versionTimestamps, tsResult,
                   sf, specials, views, reads>>

\* applyRecoverSchemaV2 returned r.
RecoverSchemaOf(r) ==
    /\ SetData(r.d)
    /\ IF r.err # "" THEN Abort
       ELSE /\ pending' = r.calls
            /\ UNCHANGED <<kv, schemaMetaVersion, ddlLeft, versionTimestamps,
                           tsResult, sf, specials, aborted, views, reads>>

ApplyRecoverSchema ==
    /\ pending # <<>>
    /\ Head(pending).op = "recoverSchema"
    /\ RecoverSchemaOf(applyRecoverSchemaV2(Data, schemaMetaVersion, Head(pending).id))

\* applyCreateTable returns an error (the KV read fails): the handler
\* returns it and the diff is aborted.
FailCreateTable ==
    /\ pending # <<>>
    /\ Head(pending).op = "createTable"
    /\ SetData(Data)
    /\ Abort

NextSchema ==
    \/ DiffCreateSchema
    \/ DiffDropSchema
    \/ DiffCreateTable
    \/ DiffModifySchemaCharsetAndCollate
    \/ DiffModifySchemaDefaultPlacement
    \/ DiffRecoverSchema
    \/ DiffAlterTable
    \/ ApplyCreateSchema
    \/ ApplyDropTable
    \/ ApplyCreateTable
    \/ ApplyDeleteDB
    \/ ApplyModifySchemaCharsetAndCollate
    \/ ApplyModifySchemaDefaultPlacement
    \/ ApplyRecoverSchema
    \/ FailCreateTable

SpecSchema == InitSchema /\ [][NextSchema]_vars

----------------------------------------------------------------------------
(* The applier creating and dropping up to MaxListTableID tables in the     *)
(* databases (SpecList).                                                    *)

InitList == InitCatalog /\ InitOther /\ ddlLeft = MaxDiffsList

\* ApplyDiff for a CreateTable diff, table ids being allocated up to
\* MaxListTableID.
DiffCreateTableList ==
    /\ CanStartDiff
    /\ nextTableID <= MaxListTableID
    /\ \E x \in curKV.dbs, name \in TableNames, k \in CreateKinds(nextTableID) :
        /\ NameFree(x.ID, name)
        /\ LET t == [ID |-> nextTableID, Name |-> name, DBID |-> x.ID,
                     TTL |-> k.TTL, Parts |-> k.Parts]
           IN  TableUpdate(Diff("CreateTable", x.ID, x.ID, 0, t.ID),
                           [curKV EXCEPT !.tbls = @ \cup {t}])

NextList ==
    \/ DiffCreateSchema
    \/ DiffCreateTableList
    \/ DiffDropTable
    \/ ApplyCreateSchema
    \/ ApplyDropTable
    \/ ApplyCreateTable

SpecList == InitList /\ [][NextList]_vars

----------------------------------------------------------------------------
(* Snapshot views and their clones, while the applier runs (SpecClone).     *)

InitClone == InitCatalog /\ InitOther /\ ddlLeft = MaxDiffsClone

\* The timestamps CloneAndUpdateTS is called with.
CloneTS == 0..MaxDiffsClone

ViewsUnchanged ==
    UNCHANGED <<byName, byID, schemaMap, schemaID2Name, tableCache, pid2tid,
                tableInfoResident, dbHeap, kv, schemaMetaVersion, pending,
                ddlLeft, versionTimestamps, tsResult, sf, specials, aborted, reads>>

\* A snapshot view of a published version V, reading the KV at the
\* timestamp of V: NewInfoSchemaV2 and the builder's version.
DoNewInfoSchemaV2 ==
    /\ Len(views) = 0
    /\ \E V \in ReaderVersions :
        views' = <<[is |-> infoschemaV2(V, V), parent |-> 0, startTS |-> V]>>
    /\ ViewsUnchanged

\* is.CloneAndUpdateTS(startTS) on a view held.
DoCloneAndUpdateTS ==
    /\ Len(views) > 0
    /\ Len(views) < MaxViews
    /\ \E i \in DOMAIN views, startTS \in CloneTS :
        views' = Append(views, [is |-> CloneAndUpdateTS(views[i].is, startTS),
                                parent |-> i, startTS |-> startTS])
    /\ ViewsUnchanged

\* is.TableByID(id) on a view held.
ViewTableByID ==
    /\ \E i \in DOMAIN views, id \in TableIDs :
        /\ tableCache' = TableByID(Data, views[i].is.schemaMetaVersion,
                                   views[i].is.ts, id).cache
        /\ tableCache' # tableCache
    /\ ReadOnly
    /\ UNCHANGED views

\* is.EvictTable(schema, tbl) on a view held.
ViewEvictTable ==
    /\ \E i \in DOMAIN views, schema \in DBNames, tbl \in TableNames :
        /\ tableCache' = EvictTable(Data, views[i].is.schemaMetaVersion, schema, tbl)
        /\ tableCache' # tableCache
    /\ ReadOnly
    /\ UNCHANGED views

NextClone ==
    \/ DiffCreateSchema
    \/ DiffCreateTable
    \/ DiffAlterTable
    \/ DiffDropTable
    \/ ApplyCreateSchema
    \/ ApplyDropTable
    \/ ApplyCreateTable
    \/ DoNewInfoSchemaV2
    \/ DoCloneAndUpdateTS
    \/ ViewTableByID
    \/ ViewEvictTable

SpecClone == InitClone /\ [][NextClone]_vars

----------------------------------------------------------------------------
(* The version-timestamp log specification: a log as its writer keeps it,   *)
(* and getVersionByTS calls on it.                                          *)

\* Strictly decreasing in schemaVersion; the timestamps that are known
\* (non-zero) do not increase.
ValidLog(log) ==
    \A i \in DOMAIN log, j \in DOMAIN log :
        i < j => /\ log[i].schemaVersion > log[j].schemaVersion
                 /\ (log[i].timestamp # 0 /\ log[j].timestamp # 0)
                       => log[i].timestamp >= log[j].timestamp

LogEntries == [schemaVersion : 1..MaxLogVersion, timestamp : 0..MaxTS]

Logs == UNION {{log \in [1..n -> LogEntries] : ValidLog(log)} : n \in 0..MaxLogLen}

InitTS ==
    /\ InitCatalog
    /\ ddlLeft = 0
    /\ sf = NoLoads
    /\ specials = NewData.specials
    /\ aborted = {}
    /\ views = <<>>
    /\ reads = <<>>
    /\ versionTimestamps \in Logs
    /\ tsResult = {}

\* A call of getVersionByTS(ts); its result is recorded.
GetVersionByTS ==
    /\ \E ts \in 0..(MaxTS + 1) :
        LET r == getVersionByTS(versionTimestamps, ts) IN
        /\ tsResult' = tsResult \cup {[ts |-> ts, version |-> r.version, ok |-> r.ok]}
        /\ tsResult' # tsResult
    /\ UNCHANGED <<catalogVars, versionTimestamps, sf, specials, aborted, views, reads>>

NextTS == GetVersionByTS

SpecTS == InitTS /\ [][NextTS]_vars

----------------------------------------------------------------------------
(* The store with special databases: addSpecialDB and the four writers of   *)
(* the versioned indices, called with any name, one version per call.       *)

SpecialDBNames == {InformationSchemaName, MetricSchemaName, PerformanceSchemaName}

\* The names the writers are called with: an ordinary one and the special ones.
CallNames == {1} \cup SpecialDBNames

\* The handle of the table of a special database.
SpecialTable(schema, name) ==
    [ID |-> SystemSchemaIDFlag + 10 * schema + name, Name |-> name,
     DBID |-> SystemSchemaIDFlag + schema, TTL |-> FALSE, Parts |-> {}]

\* The tables a special database is registered with.
SpecialTables(schema) ==
    {[n \in S |-> SpecialTable(schema, n)] : S \in {{1}, {1, 2}}}

InitSpecial ==
    /\ InitCatalog
    /\ InitOther
    /\ ddlLeft = MaxSpecialOps

\* One more call on the store is made, at the next version.
SpecialStep(d) ==
    /\ ddlLeft > 0
    /\ ddlLeft' = ddlLeft - 1
    /\ schemaMetaVersion' = schemaMetaVersion + 1
    /\ SetData(d)
    /\ specials' = d.specials
    /\ UNCHANGED <<kv, pending, versionTimestamps, tsResult, sf, aborted, views, reads>>

\* A new *model.DBInfo of that id and name.
NewDB(d, id, name) ==
    [d EXCEPT !.dbHeap = Append(@, [ID |-> id, Name |-> name, Charset |-> 1,
                                     Placement |-> 0])]

SpAddSpecialDB ==
    \E name \in SpecialDBNames : \E tables \in SpecialTables(name) :
        SpecialStep(addSpecialDB(NewDB(Data, SystemSchemaIDFlag + name, name),
                                 Len(dbHeap) + 1, tables))

\* The item and the handle of a table of the versioned indices.
CallItem(schema, tbl) ==
    [dbName |-> schema, dbID |-> 1, tableName |-> tbl, tableID |-> 1,
     schemaVersion |-> schemaMetaVersion + 1, tomb |-> FALSE]

SpAdd ==
    \E schema \in CallNames, tbl \in TableNames :
        SpecialStep(add(Data, CallItem(schema, tbl),
                        [ID |-> 1, Name |-> tbl, DBID |-> 1, TTL |-> FALSE,
                         Parts |-> {}]))

SpRemove ==
    \E schema \in CallNames, tbl \in TableNames :
        SpecialStep(remove(Data, CallItem(schema, tbl)))

SpAddDB ==
    \E name \in CallNames :
        SpecialStep(addDB(NewDB(Data, 1, name), schemaMetaVersion + 1,
                          Len(dbHeap) + 1))

SpDeleteDB ==
    \E di \in DOMAIN dbHeap :
        SpecialStep(deleteDB(Data, di, schemaMetaVersion + 1))

NextSpecial ==
    \/ SpAddSpecialDB
    \/ SpAdd
    \/ SpRemove
    \/ SpAddDB
    \/ SpDeleteDB

SpecSpecial == InitSpecial /\ [][NextSpecial]_vars

----------------------------------------------------------------------------
(* The applier creating and dropping databases while special databases are  *)
(* registered (SpecAllSchemas).                                             *)

InitAllSchemas == InitCatalog /\ InitOther /\ ddlLeft = MaxDiffsAll

\* addSpecialDB of a special database not yet registered, between diffs.
DoAddSpecialDB ==
    /\ pending = <<>>
    /\ \E name \in SpecialDBNames \ DOMAIN specials :
       \E tables \in SpecialTables(name) :
        LET d == addSpecialDB(NewDB(Data, SystemSchemaIDFlag + name, name),
                              Len(dbHeap) + 1, tables)
        IN  SetData(d) /\ specials' = d.specials
    /\ UNCHANGED <<kv, schemaMetaVersion, pending, ddlLeft, versionTimestamps,
                   tsResult, sf, aborted, views, reads>>

NextAllSchemas ==
    \/ DiffCreateSchema
    \/ DiffDropSchema
    \/ ApplyCreateSchema
    \/ ApplyDeleteDB
    \/ DoAddSpecialDB

SpecAllSchemas == InitAllSchemas /\ [][NextAllSchemas]_vars

----------------------------------------------------------------------------
(* Concurrent TableByID calls on one snapshot: tableByID statement by       *)
(* statement, the loads going through loadTableSF (a singleflight.Group).   *)
(* sf holds the callers' positions and locals and the group's state.        *)

Callers == 1..NumCallers

\* The key loadTableInfo passes to Do: "%d-%d-%d" of dbID, tblID, version.
loadKey(dbID, tblID, schemaVersion) == <<dbID, tblID, schemaVersion>>

\* Do that never joins a call in flight.
Do_noJoin(m, calls, key, p) ==
    [m |-> [k \in DOMAIN m \cup {key} |-> IF k = key THEN Len(calls) + 1 ELSE m[k]],
     calls |-> Append(calls, [dups |-> {}]),
     leader |-> TRUE]

\* singleflight.Group.Do(key, fn) on entry: with a call in flight for the
\* key the caller is added to its waiters; else a call is registered and
\* the caller runs fn.  calls is the heap of call objects, m maps a key to
\* the call in flight.
Do(m, calls, key, p) ==
    IF key \in DOMAIN m
    THEN [m |-> m,
          calls |-> [calls EXCEPT ![m[key]].dups = @ \cup {p}],
          leader |-> FALSE]
    ELSE [m |-> [k \in DOMAIN m \cup {key} |-> IF k = key THEN Len(calls) + 1 ELSE m[k]],
          calls |-> Append(calls, [dups |-> {}]),
          leader |-> TRUE]

\* doCall that leaves the finished call registered.
doCall_keepKey(m, key, c) == m

\* singleflight's doCall after fn returned: the key is deleted if it still
\* maps to this call.
doCall(m, key, c) ==
    IF key \in DOMAIN m /\ m[key] = c THEN [k \in DOMAIN m \ {key} |-> m[k]] ELSE m

\* tables.TableFromMeta: a new handle object for the descriptor.
TableFromMeta(tblInfo, obj) ==
    [ID |-> tblInfo.ID, Name |-> tblInfo.Name, DBID |-> tblInfo.DBID,
     TTL |-> tblInfo.TTL, Parts |-> tblInfo.Parts, Obj |-> obj]

\* tableByID's "if !noRefill { is.tableCache.Set(key, tbl) }".
refill(cache, key, tbl, noRefill) ==
    IF noRefill THEN cache ELSE CacheSet(cache, key, tbl)

\* The store after EvictTable(schema, tbl) on the snapshot at V.
Evicted(d, V, schema, tbl) == [d EXCEPT !.tableCache = EvictTable(d, V, schema, tbl)]

\* The store is d.
IsData(d) ==
    /\ byName = d.byName
    /\ byID = d.byID
    /\ schemaMap = d.schemaMap
    /\ schemaID2Name = d.schemaID2Name
    /\ tableCache = d.tableCache
    /\ pid2tid = d.pid2tid
    /\ tableInfoResident = d.tableInfoResident
    /\ dbHeap = d.dbHeap
    /\ specials = d.specials

\* The catalog the callers read: CreateSchema "a" (v1), CreateTable a.t
\* (v2), CreateSchema "b" (v3), and the table evicted from the cache.
SFTable == [ID |-> 1, Name |-> 1, DBID |-> 1, TTL |-> FALSE, Parts |-> {}]
SFKV ==
    LET a == [ID |-> 1, Name |-> 1, Charset |-> 0, Placement |-> 0]
        b == [ID |-> 2, Name |-> 2, Charset |-> 0, Placement |-> 0]
    IN  <<EmptyKV, [dbs |-> {a}, tbls |-> {}], [dbs |-> {a}, tbls |-> {SFTable}],
          [dbs |-> {a, b}, tbls |-> {SFTable}]>>
SFData ==
    Evicted(applyCreateSchema(
                applyCreateTable(applyCreateSchema(NewData, 1, 1), 2, 1, 1), 3, 2),
            3, 1, 1)

\* Positions of a caller inside loadTableInfo.
LoadPCs == {"do", "wait", "getTable", "fromMeta"}

InitSF ==
    /\ kv = SFKV
    /\ schemaMetaVersion = 3
    /\ pending = <<>>
    /\ ddlLeft = 0
    /\ IsData(SFData)
    /\ versionTimestamps = <<>>
    /\ tsResult = {}
    /\ aborted = {}
    /\ views = <<>>
    /\ reads = <<>>
    /\ \E V \in 2..3, ts \in 1..3, id \in TableIDs :
        sf = [V |-> V, ts |-> ts, id |-> id,
              err |-> [p \in Callers |-> ""],
              fatal |-> {},
              pc |-> [p \in Callers |-> "start"],
              itm |-> [p \in Callers |-> zeroTableItem],
              tblInfo |-> [p \in Callers |-> NoTable],
              ret |-> [p \in Callers |-> NoTable],
              exec |-> [p \in Callers |-> 0],
              m |-> <<>>, calls |-> <<>>, completed |-> 0,
              getTableCalls |-> 0, flashErrs |-> 0,
              conc |-> {}, late |-> FALSE,
              afterDone |-> [p \in Callers |-> FALSE]]

SFUnchanged ==
    UNCHANGED <<byName, byID, schemaMap, schemaID2Name, pid2tid,
                tableInfoResident, dbHeap, kv, schemaMetaVersion, pending,
                ddlLeft, versionTimestamps, tsResult, specials, aborted, views, reads>>

\* tableByID, the probe of the cache with the snapshot's key.
SFProbe(p) ==
    /\ sf.pc[p] = "start"
    /\ tableIDIsValid(sf.id)
    /\ LET fast == CacheGet(tableCache, tableCacheKey(sf.id, sf.V))
           after == \E q \in Callers : sf.pc[q] = "done"
       IN  sf' = IF fast.found /\ fast.tbl # NoTable
                 THEN [sf EXCEPT !.pc[p] = "done", !.ret[p] = fast.tbl,
                                 !.afterDone[p] = after]
                 ELSE [sf EXCEPT !.pc[p] = "search", !.afterDone[p] = after]
    /\ UNCHANGED tableCache
    /\ SFUnchanged

\* tableByID after its search returned r.
SFSearched(p, r) ==
    LET itm == r.target
        old == CacheGet(tableCache, tableCacheKey(itm.tableID, itm.schemaVersion))
    IN  IF ~r.ok
        THEN /\ sf' = [sf EXCEPT !.pc[p] = "done"]
             /\ UNCHANGED tableCache
        ELSE IF old.found /\ old.tbl # NoTable
        THEN /\ sf' = [sf EXCEPT !.pc[p] = "done", !.ret[p] = old.tbl]
             /\ tableCache' = refill(tableCache, tableCacheKey(sf.id, sf.V),
                                     old.tbl, FALSE)
        ELSE /\ sf' = [sf EXCEPT !.pc[p] = "do", !.itm[p] = itm,
                          !.conc = @ \cup {{p, q} : q \in
                              {x \in Callers : sf.pc[x] \in LoadPCs}}]
             /\ UNCHANGED tableCache

\* tableByID, the search of byID and the probe with the old key; a miss
\* calls loadTableInfo.
SFSearch(p) ==
    /\ sf.pc[p] = "search"
    /\ SFSearched(p, search(byID, "compareByID", sf.V,
                            [zeroTableItem EXCEPT !.tableID = sf.id,
                                                  !.schemaVersion = MaxInt64],
                            "eqByID"))
    /\ SFUnchanged

\* loadTableInfo, the entry into loadTableSF.Do.
SFDo(p) ==
    /\ sf.pc[p] = "do"
    /\ LET key == loadKey(sf.itm[p].dbID, sf.id, sf.V)
           r == Do(sf.m, sf.calls, key, p)
       IN  sf' = IF r.leader
                 THEN [sf EXCEPT !.pc[p] = "getTable", !.m = r.m, !.calls = r.calls,
                                 !.exec[p] = Len(r.calls),
                                 !.late = @ \/ sf.completed > 0]
                 ELSE [sf EXCEPT !.pc[p] = "wait", !.m = r.m, !.calls = r.calls]
    /\ UNCHANGED tableCache
    /\ SFUnchanged

\* The loader function, m.GetTable on a snapshot at the reader's ts: an
\* "in flashback progress" error sleeps and retries, any other error
\* panics, else the descriptor.  The panic leaves Do in the caller and in
\* the waiters of its call (singleflight re-panics in each of them).
SFGetTable(p) ==
    /\ sf.pc[p] = "getTable"
    /\ \/ /\ sf.flashErrs < MaxFlashback
          /\ sf' = [sf EXCEPT !.getTableCalls = @ + 1, !.flashErrs = @ + 1]
       \/ sf' = [sf EXCEPT !.getTableCalls = @ + 1, !.pc[p] = "fromMeta",
                           !.tblInfo[p] = GetTable(sf.ts, sf.itm[p].dbID, sf.id)]
       \/ LET c == sf.exec[p]
              receivers == {p} \cup sf.calls[c].dups
          IN  sf' = [sf EXCEPT
                       !.getTableCalls = @ + 1,
                       !.fatal = @ \cup {c},
                       !.pc = [q \in Callers |->
                                 IF q \in receivers THEN "panic" ELSE @[q]],
                       !.exec = [q \in Callers |->
                                   IF q \in receivers THEN c ELSE @[q]],
                       !.m = doCall(sf.m, loadKey(sf.itm[p].dbID, sf.id, sf.V), c),
                       !.completed = @ + 1]
    /\ UNCHANGED tableCache
    /\ SFUnchanged

\* The loader function returns (ErrTableNotExists for a nil descriptor,
\* else the handle built by TableFromMeta) and Do hands the result to the
\* caller and to the waiters of its call.
SFReturn(p) ==
    /\ sf.pc[p] = "fromMeta"
    /\ LET c == sf.exec[p]
           key == loadKey(sf.itm[p].dbID, sf.id, sf.V)
           res == IF sf.tblInfo[p] = NoTable THEN NoTable
                  ELSE TableFromMeta(sf.tblInfo[p], c)
           receivers == {p} \cup sf.calls[c].dups
       IN  sf' = [sf EXCEPT
                    !.pc = [q \in Callers |-> IF q \in receivers THEN "set" ELSE @[q]],
                    !.ret = [q \in Callers |-> IF q \in receivers THEN res ELSE @[q]],
                    !.err = [q \in Callers |->
                               IF q \in receivers /\ res = NoTable
                               THEN "ErrTableNotExists" ELSE @[q]],
                    !.exec = [q \in Callers |-> IF q \in receivers THEN c ELSE @[q]],
                    !.m = doCall(sf.m, key, c),
                    !.completed = @ + 1]
    /\ UNCHANGED tableCache
    /\ SFUnchanged

\* tableByID after loadTableInfo returned: nil or an error is "not found",
\* else the handle is cached under the old key and returned.
SFSet(p) ==
    /\ sf.pc[p] = "set"
    /\ sf' = [sf EXCEPT !.pc[p] = "done"]
    /\ tableCache' =
         IF sf.ret[p] = NoTable THEN tableCache
         ELSE refill(tableCache,
                     tableCacheKey(sf.itm[p].tableID, sf.itm[p].schemaVersion),
                     sf.ret[p], FALSE)
    /\ SFUnchanged

NextSF ==
    \E p \in Callers :
        \/ SFProbe(p)
        \/ SFSearch(p)
        \/ SFDo(p)
        \/ SFGetTable(p)
        \/ SFReturn(p)
        \/ SFSet(p)

SpecSF == InitSF /\ [][NextSF]_vars

----------------------------------------------------------------------------
(* The loads while the KV is in flashback (SpecFlashback).  sf.flashback    *)
(* says that the KV answers GetTable with "in flashback progress"; the      *)
(* flashback may end, once, at any time or never.  The callers are          *)
(* goroutines, each scheduled again and again.                              *)

Saturated(n) == IF n < MaxRetries THEN n + 1 ELSE n

InitFlashback ==
    /\ kv = SFKV
    /\ schemaMetaVersion = 3
    /\ pending = <<>>
    /\ ddlLeft = 0
    /\ IsData(SFData)
    /\ versionTimestamps = <<>>
    /\ tsResult = {}
    /\ aborted = {}
    /\ views = <<>>
    /\ reads = <<>>
    /\ \E V \in 2..3, ts \in 1..3, id \in TableIDs, flashback \in BOOLEAN :
        sf = [V |-> V, ts |-> ts, id |-> id,
              flashback |-> flashback,
              err |-> [p \in Callers |-> ""],
              fatal |-> {},
              pc |-> [p \in Callers |-> "start"],
              itm |-> [p \in Callers |-> zeroTableItem],
              tblInfo |-> [p \in Callers |-> NoTable],
              ret |-> [p \in Callers |-> NoTable],
              exec |-> [p \in Callers |-> 0],
              m |-> <<>>, calls |-> <<>>, completed |-> 0,
              getTableCalls |-> 0, flashErrs |-> 0,
              conc |-> {}, late |-> FALSE,
              afterDone |-> [p \in Callers |-> FALSE]]

\* The flashback ends: GetTable no longer returns its error.
EndFlashback ==
    /\ sf.flashback
    /\ sf' = [sf EXCEPT !.flashback = FALSE]
    /\ UNCHANGED tableCache
    /\ SFUnchanged

\* The loader function, m.GetTable on a snapshot at the reader's ts.  During
\* the flashback it returns the "in flashback progress" error: the loader
\* sleeps and goes back to retry, as often as the error comes (the counters
\* stop at MaxRetries, the retries do not).  Afterwards it returns the
\* descriptor, or another error and the loader panics.
FlashGetTable(p) ==
    /\ sf.pc[p] = "getTable"
    /\ \/ /\ sf.flashback
          /\ sf' = [sf EXCEPT !.getTableCalls = Saturated(@),
                              !.flashErrs = Saturated(@)]
       \/ /\ ~sf.flashback
          /\ sf' = [sf EXCEPT !.getTableCalls = Saturated(@), !.pc[p] = "fromMeta",
                              !.tblInfo[p] = GetTable(sf.ts, sf.itm[p].dbID, sf.id)]
       \/ /\ ~sf.flashback
          /\ LET c == sf.exec[p]
                 receivers == {p} \cup sf.calls[c].dups
             IN  sf' = [sf EXCEPT
                          !.getTableCalls = Saturated(@),
                          !.fatal = @ \cup {c},
                          !.pc = [q \in Callers |->
                                    IF q \in receivers THEN "panic" ELSE @[q]],
                          !.exec = [q \in Callers |->
                                      IF q \in receivers THEN c ELSE @[q]],
                          !.m = doCall(sf.m, loadKey(sf.itm[p].dbID, sf.id, sf.V), c),
                          !.completed = @ + 1]
    /\ UNCHANGED tableCache
    /\ SFUnchanged

\* A step of the caller p.
FlashCaller(p) ==
    \/ SFProbe(p)
    \/ SFSearch(p)
    \/ SFDo(p)
    \/ FlashGetTable(p)
    \/ SFReturn(p)
    \/ SFSet(p)

NextFlashback ==
    \/ \E p \in Callers :
        \/ SFProbe(p)
        \/ SFSearch(p)
        \/ SFDo(p)
        \/ FlashGetTable(p)
        \/ SFReturn(p)
        \/ SFSet(p)
    \/ EndFlashback

SpecFlashback ==
    /\ InitFlashback
    /\ [][NextFlashback]_vars
    /\ \A p \in Callers : WF_vars(FlashCaller(p))

----------------------------------------------------------------------------
(* Lookups, evictions and loads on a fixed catalog, every loaded handle     *)
(* being a new object (SpecCache).  reads holds the number of the next      *)
(* object, the handle each load stored and under which key, and the last    *)
(* call with its result.                                                    *)

\* The cache SchemaTables leaves: tableByID(id, noRefill) for every id of
\* ids in turn.
RECURSIVE schemaTablesWalk(_, _, _, _, _)
schemaTablesWalk(d, V, ts, ids, noRefill) ==
    IF ids = <<>> THEN d.tableCache
    ELSE schemaTablesWalk(
             [d EXCEPT !.tableCache = tableByID(d, V, ts, Head(ids), noRefill).cache],
             V, ts, Tail(ids), noRefill)

\* The cache infoschemaV2.SchemaTables(schema) leaves.
SchemaTablesCache(d, V, ts, schema) ==
    LET dbInfo == SchemaByName(d, V, schema) IN
    IF IsSpecialDB(schema) \/ ~dbInfo.ok THEN d.tableCache
    ELSE schemaTablesWalk(d, V, ts,
             SetToSeq(ListSimpleTables(ts, d.dbHeap[dbInfo.val].ID)), TRUE)

\* The catalog: CreateSchema "a" (v1), CreateTable a.t (v2), CreateSchema
\* "b" (v3), AlterTable a.t (v4).  The snapshots at 2 and 3 resolve the
\* table to the entry of version 2, the snapshot at 4 to that of version 4.
CacheKV == Append(SFKV, [dbs |-> SFKV[4].dbs, tbls |-> {Altered(SFTable)}])

\* applyTableUpdate for the AlterTable diff of version 4 on d: the table is
\* dropped and created again.  The set of the one Data that results.
AlteredData(d) ==
    {applyCreateTable(d2, 4, 1, 1) :
        d2 \in {applyDropTableV2(d1, 4, 3, 1, 1) :
                   d1 \in {[d EXCEPT !.tableCache = allocByID(d, 4, 3, 1)]}}}

CacheData ==
    CHOOSE d4 \in UNION {AlteredData(d3) :
                     d3 \in {applyCreateSchema(
                                 applyCreateTable(applyCreateSchema(NewData, 1, 1),
                                                  2, 1, 1), 3, 2)}} : TRUE

CacheVersions == 2..4

NoRead == [op |-> "", V |-> 0, key |-> <<0, 0>>, val |-> NoTable, ok |-> FALSE,
           loaded |-> FALSE]

InitCache ==
    /\ kv = CacheKV
    /\ schemaMetaVersion = 4
    /\ pending = <<>>
    /\ ddlLeft = 0
    /\ IsData(CacheData)
    /\ versionTimestamps = <<>>
    /\ tsResult = {}
    /\ sf = NoLoads
    /\ aborted = {}
    /\ views = <<>>
    /\ reads = [nextObj |-> 1, stored |-> <<>>, last |-> NoRead]

CacheUnchanged ==
    UNCHANGED <<byName, byID, schemaMap, schemaID2Name, pid2tid,
                tableInfoResident, dbHeap, kv, schemaMetaVersion, pending,
                ddlLeft, versionTimestamps, tsResult, sf, specials, aborted, views>>

\* The cache after, with the object h in the place of what the call set.
Stamped(before, after, h) ==
    [k \in DOMAIN after |->
        IF k \notin DOMAIN before \/ after[k] # before[k] THEN h ELSE after[k]]

\* A lookup on the snapshot at V returned: key is the cache key of the index
\* entry it resolved, val the handle, loaded whether it fetched from the KV;
\* after is the cache the lookup leaves.
Looked(op, V, found, key, val, ok, loaded, after) ==
    LET h == TableFromMeta(val, reads.nextObj)
        k == IF found THEN key ELSE NoRead.key
    IN  IF loaded /\ ok
        THEN /\ reads.nextObj <= MaxLoads
             /\ tableCache' = Stamped(tableCache, after, h)
             /\ reads' = [nextObj |-> reads.nextObj + 1,
                          stored |-> CacheSet(reads.stored, k, [h |-> h, V |-> V]),
                          last |-> [op |-> op, V |-> V, key |-> k, val |-> h,
                                    ok |-> TRUE, loaded |-> TRUE]]
        ELSE /\ tableCache' = after
             /\ reads' = [reads EXCEPT
                            !.last = [op |-> op, V |-> V, key |-> k, val |-> val,
                                      ok |-> ok, loaded |-> loaded]]

\* is.TableByID(id) on the snapshot at V.
CacheTableByID ==
    /\ \E V \in CacheVersions, id \in TableIDs :
        LET s == search(byID, "compareByID", V,
                        [zeroTableItem EXCEPT !.tableID = id,
                                              !.schemaVersion = MaxInt64],
                        "eqByID")
            r == TableByID(Data, V, V, id)
        IN  Looked("TableByID", V, s.ok,
                   tableCacheKey(s.target.tableID, s.target.schemaVersion),
                   r.val, r.ok, r.loaded, r.cache)
    /\ CacheUnchanged

\* is.TableByName(schema, tbl) on the snapshot at V.
CacheTableByName ==
    /\ \E V \in CacheVersions, schema \in DBNames, tbl \in TableNames :
        LET s == search(byName, "compareByName", V,
                        [zeroTableItem EXCEPT !.dbName = schema, !.tableName = tbl,
                                              !.schemaVersion = MaxInt64],
                        "eqByName")
            r == TableByName(Data, V, V, schema, tbl)
        IN  Looked("TableByName", V, s.ok,
                   tableCacheKey(s.target.tableID, s.target.schemaVersion),
                   r.t, ~r.err, r.loaded, r.cache)
    /\ CacheUnchanged

\* is.EvictTable(schema, tbl) on the snapshot at V: the handles stored under
\* the keys it removes are gone.
CacheEvictTable ==
    /\ \E V \in CacheVersions, schema \in DBNames, tbl \in TableNames :
        /\ tableCache' = EvictTable(Data, V, schema, tbl)
        /\ tableCache' # tableCache
        /\ reads' = [reads EXCEPT
                       !.stored = [k \in DOMAIN @ \cap DOMAIN tableCache' |-> @[k]],
                       !.last = [NoRead EXCEPT !.op = "EvictTable", !.V = V]]
    /\ CacheUnchanged

\* is.SchemaTables(schema) on the snapshot at V.
CacheSchemaTables ==
    /\ \E V \in CacheVersions, schema \in DBNames :
        /\ tableCache' = SchemaTablesCache(Data, V, V, schema)
        /\ reads' = [reads EXCEPT
                       !.last = [NoRead EXCEPT !.op = "SchemaTables", !.V = V,
                                               !.key = <<schema, 0>>]]
    /\ CacheUnchanged

NextCache ==
    \/ CacheTableByID
    \/ CacheTableByName
    \/ CacheEvictTable
    \/ CacheSchemaTables

SpecCache == InitCache /\ [][NextCache]_vars

----------------------------------------------------------------------------
(* Properties. *)

\* The Data struct of the next state.
DataNext ==
    [byName |-> byName', byID |-> byID', schemaMap |-> schemaMap',
     schemaID2Name |-> schemaID2Name', tableCache |-> tableCache',
     pid2tid |-> pid2tid', tableInfoResident |-> tableInfoResident',
     dbHeap |-> dbHeap', specials |-> specials']

\* The versions a snapshot can be pinned at in this behaviour, now or later.
SnapshotVersions == 0..(schemaMetaVersion + ddlLeft)

\* What the two table lookups answer (without the cache they leave).
ByIDAnswer(d, V, id) ==
    LET r == TableByID(d, V, V, id) IN [ok |-> r.ok, val |-> r.val]
ByNameAnswer(d, V, schema, tbl) ==
    LET r == TableByName(d, V, V, schema, tbl) IN [ok |-> ~r.err, val |-> r.t]

\* The entry with the greatest schemaVersion <= V among the items of s.
LatestAtOrBelow(s, V) ==
    LET e == {x \in s : x.schemaVersion <= V} IN
    IF e = {} THEN zeroTableItem
    ELSE CHOOSE x \in e : \A y \in e : y.schemaVersion <= x.schemaVersion

SearchAgrees(r, s, V) ==
    LET m == LatestAtOrBelow(s, V) IN
    /\ r.ok <=> (m # zeroTableItem /\ ~m.tomb)
    /\ m # zeroTableItem => r.target = m

\* C2: for every key and every version V, search selects among the entries
\* matching the key the one with the greatest schemaVersion <= V, and reports
\* present exactly when that entry exists and is not a tomb.
C2_SearchSelectsLatest ==
    \A V \in SnapshotVersions :
        /\ \A id \in TableIDs :
            SearchAgrees(
                search(byID, "compareByID", V,
                       [zeroTableItem EXCEPT !.tableID = id, !.schemaVersion = MaxInt64],
                       "eqByID"),
                {x \in byID : x.tableID = id}, V)
        /\ \A schema \in DBNames, tbl \in TableNames :
            SearchAgrees(
                search(byName, "compareByName", V,
                       [zeroTableItem EXCEPT !.dbName = schema, !.tableName = tbl,
                                             !.schemaVersion = MaxInt64],
                       "eqByName"),
                {x \in byName : x.dbName = schema /\ x.tableName = tbl}, V)

\* A table whose only entry is two versions old is found, at a published
\* version, next to a key that has a tomb.
C2_Witness ==
    /\ pending = <<>>
    /\ \E x \in byID :
        /\ ~x.tomb
        /\ x.schemaVersion + 2 <= schemaMetaVersion
        /\ \A y \in byID : y.tableID = x.tableID => y = x
        /\ search(byID, "compareByID", schemaMetaVersion,
                  [zeroTableItem EXCEPT !.tableID = x.tableID,
                                        !.schemaVersion = MaxInt64], "eqByID").target = x
    /\ \E y \in byName : y.tomb


\* The lookups of a reader agree when they find the same table.
SameTable(a, b) == a.ok /\ b.ok /\ a.val = b.val

\* C3: at every published version V, TableByID(id) reports a table present
\* iff TableByName reports it present under the database and name its entry
\* carries, and both return the same table.
C3_ByIDAgreesWithByName ==
    \A V \in 0..published :
        /\ \A id \in TableIDs :
            LET a == ByIDAnswer(Data, V, id)
                e == LatestAtOrBelow({x \in byID : x.tableID = id}, V)
            IN  /\ a.ok <=> (e # zeroTableItem /\ ~e.tomb)
                /\ a.ok => /\ a.val.ID = id
                           /\ a.val.Name = e.tableName
                           /\ SameTable(a, ByNameAnswer(Data, V, e.dbName, e.tableName))
        /\ \A schema \in DBNames, tbl \in TableNames :
            LET b == ByNameAnswer(Data, V, schema, tbl) IN
            b.ok => /\ b.val.Name = tbl
                    /\ SameTable(b, ByIDAnswer(Data, V, b.val.ID))

\* Both lookups find a table at one published version and miss it at a later
\* one, with the handle gone from the cache at the earlier version.
C3_Witness ==
    \E V1 \in 0..published, V2 \in 0..published, id \in TableIDs :
        /\ V1 < V2
        /\ ByIDAnswer(Data, V1, id).ok
        /\ ~ByIDAnswer(Data, V2, id).ok
        /\ TableByID(Data, V1, V1, id).loaded
        /\ \E schema \in DBNames, tbl \in TableNames :
            SameTable(ByNameAnswer(Data, V1, schema, tbl), ByIDAnswer(Data, V1, id))


\* The applier is making the call at the head of pending.
MakesCall(op) ==
    /\ pending # <<>>
    /\ Head(pending).op = op
    /\ pending' = Tail(pending)
    /\ schemaMetaVersion' = schemaMetaVersion

\* The step in which applyDropTableV2 removes a visible table at version W:
\* afterwards the table is absent at every V >= W and answers as before at
\* every V < W.
C1_RemoveStep ==
    MakesCall("dropTable") =>
        LET W == schemaMetaVersion
            c == Head(pending)
            r == TableByID(Data, W, builderTS, c.id)
            schema == dbHeap[c.db].Name
        IN  r.ok =>
              /\ \A V \in W..(W + ddlLeft) :
                    /\ ~ByIDAnswer(DataNext, V, c.id).ok
                    /\ ~ByNameAnswer(DataNext, V, schema, r.val.Name).ok
              /\ \A V \in 0..(W - 1) :
                    /\ ByIDAnswer(DataNext, V, c.id) = ByIDAnswer(Data, V, c.id)
                    /\ ByNameAnswer(DataNext, V, schema, r.val.Name)
                         = ByNameAnswer(Data, V, schema, r.val.Name)

\* While the tomb written at W is the newest entry of the table, no snapshot
\* at a version >= W finds the table, by id or under its old name.
C1_TombShadows ==
    \A id \in TableIDs :
        LET e == LatestAtOrBelow({x \in byID : x.tableID = id}, MaxInt64) IN
        (e # zeroTableItem /\ e.tomb) =>
            \A V \in e.schemaVersion..schemaMetaVersion :
                /\ ~ByIDAnswer(Data, V, id).ok
                /\ LET n == ByNameAnswer(Data, V, e.dbName, e.tableName)
                   IN  n.ok => n.val.ID # id

\* C1: after remove(table entry at version W), TableByID and TableByName on
\* every snapshot at a version >= W report the table absent, and on every
\* snapshot at a version < W they report it as it was visible there.
C1_RemoveShadows == [][C1_RemoveStep]_vars /\ []C1_TombShadows

\* A table was removed at a published version W that leaves snapshots on
\* both sides: below W the table is still found, from W on it is not.
C1_Witness ==
    /\ pending = <<>>
    /\ \E e \in byID :
        /\ e.tomb
        /\ e.schemaVersion < schemaMetaVersion
        /\ ByIDAnswer(Data, e.schemaVersion - 1, e.tableID).ok
        /\ ByNameAnswer(Data, e.schemaVersion - 1, e.dbName, e.tableName).ok
        /\ ~ByIDAnswer(Data, e.schemaVersion, e.tableID).ok
        /\ ~ByIDAnswer(Data, schemaMetaVersion, e.tableID).ok


\* A *model.DBInfo as a reader sees it: the object and its content.
DBAnswer(d, r) ==
    [ok |-> r.ok, ref |-> r.val, db |-> IF r.ok THEN d.dbHeap[r.val] ELSE NoDB]

PartitionAnswer(d, V, pid) ==
    LET r == FindTableByPartitionID(d, V, V, pid) IN
    [tbl |-> r.tbl, def |-> r.def,
     db |-> IF r.db = 0 THEN NoDB ELSE d.dbHeap[r.db]]

\* Every answer a snapshot pinned at V gets from the catalog d.
AllLookups(d, V) ==
    [TableByID |-> [id \in TableIDs |-> ByIDAnswer(d, V, id)],
     TableByName |-> [k \in DBNames \X TableNames |-> ByNameAnswer(d, V, k[1], k[2])],
     SchemaByName |-> [n \in DBNames |-> DBAnswer(d, SchemaByName(d, V, n))],
     SchemaByID |-> [i \in DBIDs |-> DBAnswer(d, SchemaByID(d, V, i))],
     FindTableByPartitionID |-> [pid \in PartitionIDs |-> PartitionAnswer(d, V, pid)],
     AllSchemas |-> LET refs == AllSchemas(d, V)
                    IN  [i \in DOMAIN refs |-> d.dbHeap[refs[i]]],
     AllSchemaNames |-> AllSchemaNames(d, V),
     ListTablesWithSpecialAttribute |->
         [f \in Filters |-> ListTablesWithSpecialAttribute(d, V, f)]]

\* A step of the applier: a diff arrives or a call of the diff is made.
ApplierStep == pending' # pending \/ schemaMetaVersion' # schemaMetaVersion

OwnerOfPartition(c, pid) ==
    LET o == {t \in c.tbls : pid \in t.Parts} IN
    IF o = {} THEN NoTable ELSE CHOOSE t \in o : TRUE

\* C7: for a partitioned table added at version A and dropped by the applier
\* at W, FindTableByPartitionID(pid) of each of its partition ids returns the
\* table, its database and the definition on every snapshot A <= V < W, and
\* (nil, nil, nil) on every snapshot V >= W or V < A.  The KV history tells
\* the versions at which a table owns pid.
C7_PartitionLookup ==
    \A V \in 0..published, pid \in PartitionIDs :
        LET t == OwnerOfPartition(KVAt(V), pid)
            a == PartitionAnswer(Data, V, pid)
        IN  IF t = NoTable
            THEN a = [tbl |-> NoTable, def |-> 0, db |-> NoDB]
            ELSE /\ a.tbl = t
                 /\ a.def = pid
                 /\ a.db = GetDatabase(V, t.DBID)

\* A partitioned table was added at A and dropped at W, both published, with
\* snapshots before A, between A and W, and from W on.
C7_Witness ==
    /\ pending = <<>>
    /\ \E pid \in PartitionIDs, A \in 1..schemaMetaVersion, W \in 1..schemaMetaVersion :
        /\ A < W
        /\ PartitionAnswer(Data, A - 1, pid).tbl = NoTable
        /\ PartitionAnswer(Data, A, pid).def = pid
        /\ PartitionAnswer(Data, W - 1, pid).def = pid
        /\ PartitionAnswer(Data, W, pid).tbl = NoTable
        /\ [partitionID |-> pid, schemaVersion |-> W,
            tableID |-> PartitionAnswer(Data, A, pid).tbl.ID, tomb |-> TRUE] \in pid2tid
        /\ \A t \in KVAt(W).tbls : t.ID # PartitionAnswer(Data, A, pid).tbl.ID


\* The (database name, descriptor) pairs of a result of
\* ListTablesWithSpecialAttribute, by position and as a set.
ListedAt(res) ==
    UNION {{<<i, j>> : j \in DOMAIN res[i].TableInfos} : i \in DOMAIN res}
Listed(res) ==
    {<<res[k[1]].DBName, res[k[1]].TableInfos[k[2]]>> : k \in ListedAt(res)}

\* The tables of the KV at V that satisfy filter f, with the name of the
\* database they belong to at V.
VisibleWith(V, f) ==
    {<<GetDatabase(V, t.DBID).Name, t>> :
        t \in {x \in KVAt(V).tbls : ApplyFilter(f, x)}}

\* C5: at every published version V and for every filter f,
\* ListTablesWithSpecialAttribute(f) returns exactly the tables visible at V
\* whose descriptor at V satisfies f, each once and under the database it
\* belongs to at V, and no dropped table.
C5_ListExact ==
    \A V \in 0..published, f \in Filters :
        LET res == ListTablesWithSpecialAttribute(Data, V, f) IN
        /\ Listed(res) = VisibleWith(V, f)
        /\ Cardinality(ListedAt(res)) = Cardinality(VisibleWith(V, f))


\* The descriptor of table id in the KV at V, or NoTable.
TableAt(V, id) ==
    LET o == {t \in KVAt(V).tbls : t.ID = id} IN
    IF o = {} THEN NoTable ELSE CHOOSE t \in o : TRUE

\* The ids of the tables listed with any special attribute at V.
ListedIDs(V) ==
    LET res == ListTablesWithSpecialAttribute(Data, V, "All")
    IN  {res[k[1]].TableInfos[k[2]].ID : k \in ListedAt(res)}

\* C6: if a table with a special attribute is re-added at version W with a
\* descriptor without any, ListTablesWithSpecialAttribute excludes it at
\* every snapshot V >= W (as long as it has none), and still includes it,
\* with the descriptor of their own version, at the snapshots before W at
\* which it had the attribute.
C6_ClearedAttributeExcluded ==
    \A id \in TableIDs, W \in 1..published :
        (/\ TableAt(W - 1, id) # NoTable
         /\ hasSpecialAttributes(TableAt(W - 1, id))
         /\ TableAt(W, id) # NoTable
         /\ ~hasSpecialAttributes(TableAt(W, id)))
        =>
        /\ \A V \in W..published :
              (\A U \in W..V : ~hasSpecialAttributes(TableAt(U, id)))
                  => id \notin ListedIDs(V)
        /\ \A V \in 0..(W - 1) :
              (\A U \in V..(W - 1) : hasSpecialAttributes(TableAt(U, id)))
                  => <<GetDatabase(V, TableAt(V, id).DBID).Name, TableAt(V, id)>>
                        \in Listed(ListTablesWithSpecialAttribute(Data, V, "All"))


\* C10: getVersionByTS is monotone in ts: of two calls that both return ok,
\* the one with the smaller ts does not return the greater version.
C10_GetVersionByTSMonotone ==
    \A a \in tsResult, b \in tsResult :
        (a.ts <= b.ts /\ a.ok /\ b.ok) => a.version <= b.version

\* Two calls returned different versions of a log of three entries, and a
\* third call found no version.
C10_Witness ==
    /\ Len(versionTimestamps) = 3
    /\ \E a \in tsResult, b \in tsResult :
        a.ok /\ b.ok /\ a.ts < b.ts /\ a.version < b.version
    /\ \E c \in tsResult : ~c.ok


\* The callers that have returned from loadTableInfo.
Loaded == {p \in Callers : sf.pc[p] \in {"set", "done"} /\ sf.exec[p] # 0}

AllDone == \A p \in Callers : sf.pc[p] = "done"

\* C8 as stated: for two concurrent loadTableInfo calls with the same key,
\* GetTable is invoked at most once in total and both return the same handle.
C8_AtMostOneGetTable ==
    \A p \in Loaded, q \in Loaded :
        (p # q /\ {p, q} \in sf.conc)
            => sf.getTableCalls <= 1 /\ sf.ret[p] = sf.ret[q]

\* C8, amended: at no time do two executions of the loader run for one key,
\* and a caller waits only on an execution in flight; every execution
\* invokes GetTable once, and once more after each "in flashback progress"
\* error; the callers of one execution return the same handle, the callers
\* of different executions return different handle objects.
C8_CoalescedLoads ==
    /\ Cardinality({p \in Callers : sf.pc[p] \in {"getTable", "fromMeta"}}) <= 1
    /\ \A p \in Callers :
        sf.pc[p] = "wait" => \E q \in Callers : sf.pc[q] \in {"getTable", "fromMeta"}
    /\ sf.getTableCalls
         = Len(sf.calls) + sf.flashErrs
             - Cardinality({p \in Callers : sf.pc[p] = "getTable"})
    /\ \A p \in Loaded, q \in Loaded :
        /\ sf.exec[p] = sf.exec[q] => sf.ret[p] = sf.ret[q]
        /\ (sf.exec[p] # sf.exec[q] /\ sf.ret[p] # NoTable) => sf.ret[p] # sf.ret[q]

\* Two concurrent loadTableInfo calls have returned the same handle from one
\* execution that saw a flashback error.
C8_Witness ==
    /\ \E p \in Loaded, q \in Loaded :
        /\ p # q /\ {p, q} \in sf.conc
        /\ sf.exec[p] = sf.exec[q]
        /\ sf.ret[p] = sf.ret[q] /\ sf.ret[p] # NoTable
    /\ sf.getTableCalls = 2

\* The TableByID calls are concurrent: none started after another returned.
Concurrent == \A p \in Callers : ~sf.afterDone[p]

TableVisible == sf.id = SFTable.ID

InInterval(log, i, ts) ==
    /\ log[i].timestamp # 0
    /\ log[i].timestamp <= ts
    /\ (i = 1 \/ log[i - 1].timestamp > ts)

\* The next newer entry, if any, holds the next schema version.
Continuous(log, i) ==
    i = 1 \/ log[i - 1].schemaVersion = log[i].schemaVersion + 1

\* C11 as stated: a call that returns (V, true) returns the version of an
\* entry whose interval contains ts, and conversely whenever ts lies in the
\* interval of an entry with a known timestamp the call returns that entry's
\* version with ok = true.
C11_IntervalExact ==
    \A r \in tsResult :
        /\ r.ok => \E i \in DOMAIN versionTimestamps :
                       /\ versionTimestamps[i].schemaVersion = r.version
                       /\ InInterval(versionTimestamps, i, r.ts)
        /\ \A i \in DOMAIN versionTimestamps :
              InInterval(versionTimestamps, i, r.ts)
                  => r.ok /\ r.version = versionTimestamps[i].schemaVersion

\* C11, amended: in a log that is strictly decreasing in schemaVersion with
\* non-increasing known timestamps, getVersionByTS(ts) returns (V, true)
\* exactly when ts lies in the interval of V's entry and that entry is the
\* newest one or the next newer entry holds version V + 1; an entry whose
\* interval contains ts but whose newer neighbour is more than one version
\* ahead makes the call return ok = false.
C11_IntervalOfContinuousEntry ==
    \A r \in tsResult :
        /\ r.ok => \E i \in DOMAIN versionTimestamps :
                       /\ versionTimestamps[i].schemaVersion = r.version
                       /\ InInterval(versionTimestamps, i, r.ts)
                       /\ Continuous(versionTimestamps, i)
        /\ \A i \in DOMAIN versionTimestamps :
              InInterval(versionTimestamps, i, r.ts)
                  => IF Continuous(versionTimestamps, i)
                     THEN r.ok /\ r.version = versionTimestamps[i].schemaVersion
                     ELSE ~r.ok

\* A call returned an older entry next to its newer neighbour, and another
\* call found no version although ts lay in the interval of an entry behind
\* a gap in the versions.
C11_Witness ==
    /\ \E r \in tsResult : \E i \in DOMAIN versionTimestamps :
          /\ i > 1 /\ r.ok
          /\ r.version = versionTimestamps[i].schemaVersion
          /\ InInterval(versionTimestamps, i, r.ts)
    /\ \E r \in tsResult : \E i \in DOMAIN versionTimestamps :
          /\ ~r.ok
          /\ InInterval(versionTimestamps, i, r.ts)
          /\ ~Continuous(versionTimestamps, i)

\* What the registry alone answers for a special database.
RegistryTable(reg, schema, tbl) ==
    IF schema \in DOMAIN reg /\ tbl \in DOMAIN reg[schema].tables
    THEN [t |-> reg[schema].tables[tbl], err |-> FALSE]
    ELSE [t |-> NoTable, err |-> TRUE]

RegistrySchema(reg, schema) ==
    IF schema \in DOMAIN reg THEN [val |-> reg[schema].dbInfo, ok |-> TRUE]
    ELSE [val |-> 0, ok |-> FALSE]

RegistryTables(reg, schema) ==
    IF schema \in DOMAIN reg
    THEN {reg[schema].tables[n] : n \in DOMAIN reg[schema].tables}
    ELSE {}

\* The three lookups on the store d answer what the registry answers, at
\* every snapshot version.
AnsweredFromRegistry(d, schema) ==
    \A V \in 0..MaxSpecialOps :
        /\ SchemaByName(d, V, schema) = RegistrySchema(d.specials, schema)
        /\ SchemaTables(d, V, V, schema) = RegistryTables(d.specials, schema)
        /\ \A tbl \in TableNames :
              LET r == TableByName(d, V, V, schema, tbl) IN
              [t |-> r.t, err |-> r.err] = RegistryTable(d.specials, schema, tbl)

\* C12: for a special database, TableByName, SchemaByName and SchemaTables
\* answer from the registry alone, the same at every snapshot version and
\* whatever add, remove, addDB and deleteDB wrote to the versioned indices;
\* a bundle registered by addSpecialDB is never replaced or removed.
C12_SpecialsFromRegistry ==
    [][\A schema \in SpecialDBNames :
          /\ AnsweredFromRegistry(DataNext, schema)
          /\ schema \in DOMAIN specials
                => schema \in DOMAIN specials' /\ specials'[schema] = specials[schema]]_vars

\* A special database is registered with one table, a second DBInfo of its
\* name exists (a later addSpecialDB or addDB), and the versioned indices
\* hold an entry and a tomb under its name.
C12_Witness ==
    \E schema \in DOMAIN specials :
        /\ DOMAIN specials[schema].tables = {1}
        /\ \E x \in byName : x.dbName = schema /\ x.tableName = 2 /\ ~x.tomb
        /\ \E x \in schemaMap : x.name = schema
        /\ TableByName(Data, schemaMetaVersion, schemaMetaVersion, schema, 2).err
        /\ ~TableByName(Data, schemaMetaVersion, schemaMetaVersion, schema, 1).err

\* The DBInfo a schema lookup returned, read through the pointer.
DBInfoOf(d, r) == IF r.ok THEN d.dbHeap[r.val] ELSE NoDB

\* The step in which the applier runs a handler that modifies a database.
ModifiesSchema ==
    /\ pending # <<>>
    /\ Head(pending).op \in {"modifyCharset", "modifyPlacement"}
    /\ pending' = Tail(pending)

\* C13: after ModifyCharsetAndCollate or ModifyDefaultPlacement is applied to
\* a database at version W, SchemaByName and SchemaByID at every version
\* below W still return the database with its previous charset, collation
\* and placement policy, and at every version from W on return it, still
\* visible, with the new values.
C13_ModifyKeepsHistory ==
    [][ModifiesSchema =>
         LET W == schemaMetaVersion
             id == Head(pending).id
             new == GetDatabase(W, id)
         IN  /\ \A V \in 0..(W - 1) :
                   /\ DBInfoOf(DataNext, SchemaByID(DataNext, V, id))
                        = DBInfoOf(Data, SchemaByID(Data, V, id))
                   /\ DBInfoOf(DataNext, SchemaByName(DataNext, V, new.Name))
                        = DBInfoOf(Data, SchemaByName(Data, V, new.Name))
             /\ \A V \in W..MaxDiffsSchema :
                   /\ DBInfoOf(DataNext, SchemaByID(DataNext, V, id)) = new
                   /\ DBInfoOf(DataNext, SchemaByName(DataNext, V, new.Name)) = new]_vars

\* The tables the KV holds for database id at version V.
TablesOfDB(V, id) == {t \in KVAt(V).tbls : t.DBID = id}

\* What the four lookups answer at V for database db and the tables ts.
SchemaAnswers(d, V, db, tbls) ==
    [SchemaByName |-> DBAnswer(d, SchemaByName(d, V, db.Name)),
     SchemaByID |-> DBAnswer(d, SchemaByID(d, V, db.ID)),
     TableByID |-> [t \in tbls |-> ByIDAnswer(d, V, t.ID)],
     TableByName |-> [t \in tbls |-> ByNameAnswer(d, V, db.Name, t.Name)]]

\* A call of a DropSchema diff at W (the diff ends with deleteDB): the
\* snapshots below W answer as before, and when the call is the deleteDB
\* the snapshots from W on find neither the database nor a table it held
\* just before W.
C14_DropSchemaStep ==
    (/\ pending # <<>>
     /\ pending[Len(pending)].op = "deleteDB"
     /\ pending' = Tail(pending)) =>
        LET W == schemaMetaVersion
            db == dbHeap[pending[Len(pending)].db]
            tbls == TablesOfDB(W - 1, db.ID)
        IN  /\ \A V \in 0..(W - 1) :
                  SchemaAnswers(DataNext, V, db, tbls) = SchemaAnswers(Data, V, db, tbls)
            /\ pending' = <<>> =>
                  \A V \in W..(W + ddlLeft) :
                      /\ ~SchemaByName(DataNext, V, db.Name).ok
                      /\ ~SchemaByID(DataNext, V, db.ID).ok
                      /\ \A t \in tbls :
                            /\ ~ByIDAnswer(DataNext, V, t.ID).ok
                            /\ ~ByNameAnswer(DataNext, V, db.Name, t.Name).ok

\* While the tomb written by deleteDB at W is the newest entry of the
\* database id, no published snapshot from W on finds the database by id or
\* by id one of the tables it held just before W; below W the database and
\* those tables are found.
C14_DroppedStaysAbsent ==
    \A e \in schemaID2Name :
        (/\ e.tomb
         /\ e.schemaVersion <= published
         /\ \A y \in schemaID2Name : y.id = e.id => y.schemaVersion <= e.schemaVersion) =>
            /\ \A V \in e.schemaVersion..published :
                  /\ ~SchemaByID(Data, V, e.id).ok
                  /\ \A t \in TablesOfDB(e.schemaVersion - 1, e.id) :
                        ~ByIDAnswer(Data, V, t.ID).ok
            /\ LET V == e.schemaVersion - 1 IN
               /\ DBAnswer(Data, SchemaByID(Data, V, e.id)).db = GetDatabase(V, e.id)
               /\ DBAnswer(Data, SchemaByName(Data, V, e.name)).db = GetDatabase(V, e.id)
               /\ \A t \in TablesOfDB(V, e.id) :
                     /\ ByIDAnswer(Data, V, t.ID) = [ok |-> TRUE, val |-> t]
                     /\ ByNameAnswer(Data, V, e.name, t.Name) = [ok |-> TRUE, val |-> t]

\* C14: after DropSchema is applied for database D at version W, every
\* snapshot at a version >= W finds neither D, by name or by id, nor, by
\* name or by id, a table that belonged to D just before W; every snapshot
\* at a version < W finds the database and its tables as before.
C14_DropSchema == [][C14_DropSchemaStep]_vars /\ []C14_DroppedStaysAbsent

\* A database that held a table was dropped at a version below the
\* published one, and the snapshot just below the drop finds both.
C14_Witness ==
    /\ pending = <<>>
    /\ \E e \in schemaID2Name :
        /\ e.tomb
        /\ e.schemaVersion < schemaMetaVersion
        /\ TablesOfDB(e.schemaVersion - 1, e.id) # {}
        /\ SchemaByID(Data, e.schemaVersion - 1, e.id).ok
        /\ ~SchemaByID(Data, schemaMetaVersion, e.id).ok
        /\ \A t \in TablesOfDB(e.schemaVersion - 1, e.id) :
              /\ ByIDAnswer(Data, e.schemaVersion - 1, t.ID).ok
              /\ ~ByIDAnswer(Data, e.schemaVersion, t.ID).ok

\* The versions of the entries the lookups of a snapshot at U select: for
\* every key of the table and schema indices, the entry with the greatest
\* schemaVersion <= U.
SelectedVersions(U) ==
    {LatestAtOrBelow({x \in byID : x.tableID = e.tableID}, U).schemaVersion :
        e \in byID}
    \cup {LatestAtOrBelow({x \in byName : x.dbName = e.dbName
                                          /\ x.tableName = e.tableName},
                          U).schemaVersion : e \in byName}
    \cup {LatestAtOrBelow({x \in schemaMap : x.name = e.name}, U).schemaVersion :
            e \in schemaMap}
    \cup {LatestAtOrBelow({x \in schemaID2Name : x.id = e.id}, U).schemaVersion :
            e \in schemaID2Name}

\* C15: when the applier aborts a diff at version V with an error after it
\* made index writes tagged V, no snapshot published afterwards, at V or
\* later, sees one of those writes: no lookup of a published snapshot
\* selects an entry tagged with an aborted version.
C15_PartialWritesInvisible ==
    \A U \in 1..published :
        U \notin aborted => SelectedVersions(U) \cap aborted = {}

\* C18: RecoverSchema for a schema id that is visible at the builder's
\* version (the latest schema-by-id entry is not a tomb) fails with
\* DatabaseExists and leaves every index and the cache unchanged; for a
\* schema id that is not visible it writes the database at the diff's
\* version W to both schema indices, and SchemaByID and SchemaByName report
\* it present from W on.
C18_RecoverSchema ==
    [][(/\ pending # <<>>
        /\ Head(pending).op = "recoverSchema"
        /\ pending' # pending) =>
          LET W == schemaMetaVersion
              id == Head(pending).id
              e == LatestAtOrBelow({x \in schemaID2Name : x.id = id}, W)
              di == GetDatabase(W, id)
          IN  IF e # zeroTableItem /\ ~e.tomb
              THEN /\ applyRecoverSchemaV2(Data, W, id).err = "ErrDatabaseExists"
                   /\ W \in aborted'
                   /\ pending' = <<>>
                   /\ DataNext = Data
              ELSE /\ W \notin aborted'
                   /\ \E x \in schemaMap' :
                         x.schemaVersion = W /\ x.name = di.Name /\ ~x.tomb
                   /\ \E x \in schemaID2Name' :
                         x.schemaVersion = W /\ x.id = id /\ ~x.tomb
                   /\ \A V \in W..(W + ddlLeft) :
                         /\ DBInfoOf(DataNext, SchemaByID(DataNext, V, id)) = di
                         /\ DBInfoOf(DataNext, SchemaByName(DataNext, V, di.Name)) = di]_vars

\* A dropped database was recovered and is found again, and a second
\* RecoverSchema of it, which left the KV as it was, was aborted.
C18_Witness ==
    /\ pending = <<>>
    /\ schemaMetaVersion \in aborted
    /\ kv[Len(kv)] = kv[Len(kv) - 1]
    /\ \E a \in schemaID2Name, b \in schemaID2Name :
        /\ a.id = b.id
        /\ a.tomb /\ ~b.tomb
        /\ a.schemaVersion < b.schemaVersion
        /\ SchemaByID(Data, b.schemaVersion, b.id).ok
        /\ ~SchemaByID(Data, a.schemaVersion, a.id).ok
        /\ SchemaByID(Data, schemaMetaVersion, b.id).ok

\* The handles in the table cache.
Cached == {tableCache[k] : k \in DOMAIN tableCache}

\* C16: when GetTable fails inside loadTableInfo with an error other than
\* the flashback one, loadTableInfo returns the error to its callers
\* (TableByID then reports the table absent), as an error value, and no
\* handle of that load is put into the table cache.
C16_FatalErrorReturned ==
    \A p \in Callers :
        sf.exec[p] \in sf.fatal =>
            /\ sf.pc[p] \in {"set", "done"}
            /\ sf.err[p] # ""
            /\ sf.ret[p] = NoTable
            /\ TableFromMeta(SFTable, sf.exec[p]) \notin Cached

\* The KV holds no descriptor of the table at the reader's ts.
NilDescriptor == GetTable(sf.ts, SFTable.DBID, sf.id) = NoTable

\* C17: when the index reports the table visible at V, the cache misses and
\* GetTable returns a nil descriptor, loadTableInfo fails with
\* ErrTableNotExists for the caller that ran the loader and for every
\* waiter of its call; TableByName returns the error, TableByID returns
\* (nil, false), and nothing is inserted into the table cache.
C17_NilDescriptor ==
    (TableVisible /\ NilDescriptor) =>
        /\ \A p \in Loaded :
              sf.err[p] = "ErrTableNotExists" /\ sf.ret[p] = NoTable
        /\ tableCache = SFData.tableCache
        /\ LET r == TableByName(Data, sf.V, sf.ts, SFTable.DBID, SFTable.Name) IN
           r.err /\ r.t = NoTable /\ r.loaded /\ r.cache = tableCache
        /\ LET r == TableByID(Data, sf.V, sf.ts, sf.id) IN
           ~r.ok /\ r.val = NoTable /\ r.loaded /\ r.cache = tableCache

\* The table is visible and its descriptor nil; a caller and a waiter of its
\* call have both returned ErrTableNotExists from one execution.
C17_Witness ==
    /\ TableVisible /\ NilDescriptor
    /\ AllDone
    /\ \E p \in Callers, q \in Callers :
        /\ p # q
        /\ sf.exec[p] = sf.exec[q] /\ sf.exec[p] # 0
        /\ sf.err[p] = "ErrTableNotExists" /\ sf.err[q] = "ErrTableNotExists"

\* What the indexes alone resolve for a view: the items search selects by id
\* and by name, the databases by name and by id, the database names and the
\* tables listed from tableInfoResident.
IndexLookups(is) ==
    LET V == is.schemaMetaVersion IN
    [byID |-> [id \in TableIDs |->
                 search(Data.byID, "compareByID", V,
                        [zeroTableItem EXCEPT !.tableID = id,
                                              !.schemaVersion = MaxInt64],
                        "eqByID")],
     byName |-> [k \in DBNames \X TableNames |->
                 search(Data.byName, "compareByName", V,
                        [zeroTableItem EXCEPT !.dbName = k[1], !.tableName = k[2],
                                              !.schemaVersion = MaxInt64],
                        "eqByName")],
     SchemaByName |-> [n \in DBNames |-> DBAnswer(Data, SchemaByName(Data, V, n))],
     SchemaByID |-> [i \in DBIDs |-> DBAnswer(Data, SchemaByID(Data, V, i))],
     AllSchemaNames |-> AllSchemaNames(Data, V),
     ListTablesWithSpecialAttribute |->
         [f \in Filters |-> ListTablesWithSpecialAttribute(Data, V, f)]]

\* A step that adds a clone: the clone has the version and the store of its
\* parent and the timestamp asked for, and the store is left as it was.
C19_CloneStep ==
    (Len(views') = Len(views) + 1 /\ views'[Len(views')].parent # 0) =>
        LET c == views'[Len(views')]
            parent == views[c.parent]
        IN  /\ c.is.schemaMetaVersion = parent.is.schemaMetaVersion
            /\ c.is.Data = parent.is.Data
            /\ c.is.ts = c.startTS
            /\ DataNext = Data

\* No step changes a view that is held.
C19_ViewsKept == \A i \in DOMAIN views : views'[i] = views[i]

\* A clone and its parent get the same answers from the indexes.
C19_SameIndexAnswers ==
    \A i \in DOMAIN views :
        views[i].parent # 0 =>
            IndexLookups(views[i].is) = IndexLookups(views[views[i].parent].is)

\* C19: CloneAndUpdateTS(ts') returns a view with the schema version and
\* the catalog store of the parent and with timestamp ts'; the parent keeps
\* its version and timestamp, then and later; and every lookup the indexes
\* resolve (whether the item exists and which one it is) answers the same
\* on the parent and on the clone.
C19_CloneAndUpdateTS ==
    [][C19_CloneStep /\ C19_ViewsKept]_vars /\ []C19_SameIndexAnswers

\* A clone whose timestamp differs from its parent's is held, the index
\* resolves a table at their version, and the KV holds different
\* descriptors of that table at the two timestamps.
C19_Witness ==
    \E i \in DOMAIN views :
        /\ views[i].parent # 0
        /\ views[i].is.ts # views[views[i].parent].is.ts
        /\ \E id \in TableIDs :
            LET r == IndexLookups(views[i].is).byID[id] IN
            /\ r.ok
            /\ GetTable(views[i].is.ts, r.target.dbID, id)
                 # GetTable(views[views[i].parent].is.ts, r.target.dbID, id)

\* The name the database of table descriptor t has at version V.
DBNameOf(V, t) ==
    LET x == GetDatabase(V, t.DBID) IN IF x = NoDB THEN 0 ELSE x.Name

\* The buckets res group tables by database.
Grouped(V, res) ==
    /\ \A i \in DOMAIN res, j \in DOMAIN res :
          res[i].DBName = res[j].DBName => i = j
    /\ \A i \in DOMAIN res :
        /\ Len(res[i].TableInfos) > 0
        /\ \A k \in DOMAIN res[i].TableInfos :
              DBNameOf(V, res[i].TableInfos[k]) = res[i].DBName

\* C20: in the result of ListTablesWithSpecialAttribute on a published
\* snapshot, every database name appears in at most one bucket, and every
\* bucket is non-empty and holds only tables of its own database, whatever
\* the number of databases and of matching tables per database.
C20_GroupedByDatabase ==
    \A V \in 0..published, f \in Filters :
        Grouped(V, ListTablesWithSpecialAttribute(Data, V, f))

\* The entries of schemaID2Name for id at versions <= V.
IDEntries(V, id) == {x \in schemaID2Name : x.id = id /\ x.schemaVersion <= V}

\* The latest entry of schemaID2Name for id at or below V is not a tomb.
IDPresent(V, id) ==
    \E x \in IDEntries(V, id) :
        /\ ~x.tomb
        /\ \A y \in IDEntries(V, id) : y.schemaVersion <= x.schemaVersion

\* The name of the latest entry of schemaID2Name for id at or below V.
IDName(V, id) ==
    (CHOOSE x \in IDEntries(V, id) :
        \A y \in IDEntries(V, id) : y.schemaVersion <= x.schemaVersion).name

\* C21: the two schema indices agree: for every snapshot version V and
\* every database id, SchemaByID(id) reports present iff the latest
\* schema-by-id entry <= V of the id is not a tomb, and when present it
\* returns a DBInfo whose ID is id and which is the DBInfo SchemaByName
\* returns for the entry's name at V.
C21_SchemaIndicesAgree ==
    \A V \in 0..schemaMetaVersion, id \in DBIDs :
        LET r == SchemaByID(Data, V, id) IN
        /\ r.ok <=> IDPresent(V, id)
        /\ r.ok => /\ dbHeap[r.val].ID = id
                   /\ SchemaByName(Data, V, IDName(V, id)) = r

\* A database was dropped and a database of the same name and a new id
\* created: at the newest version the new id resolves and the old one does
\* not, and at an older version the old id resolves to the same name.
C21_Witness ==
    /\ pending = <<>>
    /\ \E id \in DBIDs, id2 \in DBIDs, V \in 1..schemaMetaVersion :
        /\ id # id2
        /\ SchemaByID(Data, schemaMetaVersion, id2).ok
        /\ ~SchemaByID(Data, schemaMetaVersion, id).ok
        /\ SchemaByID(Data, V, id).ok
        /\ dbHeap[SchemaByID(Data, V, id).val].Name
             = dbHeap[SchemaByID(Data, schemaMetaVersion, id2).val].Name

\* The positions of the list names that hold name n.
PositionsOf(names, n) == {i \in DOMAIN names : names[i] = n}

\* C22: at every snapshot version V, the databases AllSchemas and
\* AllSchemaNames return that are not special are exactly those SchemaByName
\* reports present at V, each once and as the DBInfo of its highest-version
\* entry <= V (a tomb as the newest entry <= V hides the older entries of
\* the name); every registered special database is listed as well.
C22_AllSchemasExact ==
    \A V \in 0..schemaMetaVersion :
        LET refs == AllSchemas(Data, V)
            names == AllSchemaNames(Data, V)
        IN  /\ DOMAIN names = DOMAIN refs
            /\ \A i \in DOMAIN refs : names[i] = dbHeap[refs[i]].Name
            /\ \A i \in DOMAIN refs :
                  IsSpecialDB(names[i]) \/ names[i] \in DBNames
            /\ \A n \in DBNames :
                  LET r == SchemaByName(Data, V, n) IN
                  IF r.ok
                  THEN /\ Cardinality(PositionsOf(names, n)) = 1
                       /\ \A i \in PositionsOf(names, n) : refs[i] = r.val
                  ELSE PositionsOf(names, n) = {}
            /\ \A s \in DOMAIN specials :
                  \E i \in DOMAIN refs : refs[i] = specials[s].dbInfo

\* A special database is registered; a database was listed at an older
\* version and its newest entry, a tomb, hides it at the newest version,
\* where another database and the special one are listed.
C22_Witness ==
    /\ pending = <<>>
    /\ specials # <<>>
    /\ \E n \in DBNames, m \in DBNames, U \in 1..schemaMetaVersion :
        /\ n # m
        /\ PositionsOf(AllSchemaNames(Data, U), n) # {}
        /\ PositionsOf(AllSchemaNames(Data, schemaMetaVersion), n) = {}
        /\ PositionsOf(AllSchemaNames(Data, schemaMetaVersion), m) # {}
        /\ Len(AllSchemas(Data, schemaMetaVersion)) >= 2

\* C23: TableByID of an id with the system-schema bit resolves through the
\* registry: for every table of the bundle of a registered special
\* database, TableByID of the table's id returns that table at every
\* snapshot version, the table having no entry in the by-id index.
C23_VirtualTableByID ==
    \A schema \in DOMAIN specials :
        \A n \in DOMAIN specials[schema].tables :
            LET t == specials[schema].tables[n] IN
            \A V \in 0..schemaMetaVersion :
                LET r == TableByID(Data, V, V, t.ID) IN
                isTableVirtual(t.ID) /\ r.ok /\ r.val = t

\* Where table descriptor t is: the name of its database at V and its name.
PlaceOf(V, t) == <<DBNameOf(V, t), t.Name>>

\* The diff of version W renamed table id: the KV holds it before and after
\* W, in another database or under another name.
RenamedAt(W, id) ==
    /\ TableAt(W - 1, id) # NoTable
    /\ TableAt(W, id) # NoTable
    /\ PlaceOf(W - 1, TableAt(W - 1, id)) # PlaceOf(W, TableAt(W, id))

\* Nothing else happened to table id or to the place p in the versions
\* from..to: the table stays t and no other table takes the place p.
Settled(from, to, id, t, p) ==
    \A X \in from..to :
        /\ TableAt(X, id) = t
        /\ PlaceOf(X, t) = PlaceOf(to, t)
        /\ \A o \in KVAt(X).tbls : o.ID # id => PlaceOf(X, o) # p

\* The snapshot at U resolves the place p and the id to the table t, and
\* does not resolve the place q to it.
ResolvesOnly(U, id, t, p, q) ==
    LET byP == TableByName(Data, U, U, p[1], p[2])
        byQ == TableByName(Data, U, U, q[1], q[2])
        byI == TableByID(Data, U, U, id)
    IN  /\ ~byP.err /\ byP.t = t
        /\ byI.ok /\ byI.val = byP.t
        /\ byQ.err

\* C24: after the diff of version W renamed a table from database A to
\* database B, or to a new name in its database, every snapshot >= W finds
\* nothing under the old database and name and finds the same table, with
\* the new database and name, under the new database and name and under
\* its id; every snapshot < W resolves only the old database and name.
C24_Rename ==
    \A W \in 1..published, id \in TableIDs :
        RenamedAt(W, id) =>
            LET old == TableAt(W - 1, id)
                new == TableAt(W, id)
                p == PlaceOf(W - 1, old)
                q == PlaceOf(W, new)
            IN  \A U \in 0..published :
                  /\ (U >= W /\ Settled(W, U, id, new, p))
                        => ResolvesOnly(U, id, new, q, p)
                  /\ (U < W /\ Settled(U, W - 1, id, old, q))
                        => ResolvesOnly(U, id, old, p, q)

\* A table was renamed to another database by the diff of version W; the
\* snapshots at W and at W - 1 are both published and the table is settled
\* on both sides.
C24_Witness ==
    \E W \in 2..published, id \in TableIDs :
        /\ RenamedAt(W, id)
        /\ TableAt(W - 1, id).DBID # TableAt(W, id).DBID
        /\ Settled(W, published, id, TableAt(W, id), PlaceOf(W - 1, TableAt(W - 1, id)))
        /\ Settled(W - 1, W - 1, id, TableAt(W - 1, id), PlaceOf(W, TableAt(W, id)))
        /\ TableByID(Data, published, published, id).ok

\* The diff of version W altered table id so that partitions were dropped.
PartitionDroppedAt(W, id) ==
    /\ TableAt(W - 1, id) # NoTable
    /\ TableAt(W, id) # NoTable
    /\ TableAt(W, id).Parts # {}
    /\ TableAt(W - 1, id).Parts \ TableAt(W, id).Parts # {}

\* The KV holds table id as t in all the versions from..to.
Unaltered(from, to, id, t) == \A X \in from..to : TableAt(X, id) = t

\* The partition entry of pid at version W.
PartitionEntry(W, pid, id, tomb) ==
    [partitionID |-> pid, schemaVersion |-> W, tableID |-> id, tomb |-> tomb]

\* C25: when the diff of version W alters a partitioned table so that a
\* partition is dropped, the tomb partition entries of W are overwritten by
\* entries that are not tombs for the partitions still defined and only for
\* them: on the snapshots >= W FindTableByPartitionID of a surviving
\* partition id returns the table and the partition's definition and that
\* of the dropped partition id returns nothing, and the snapshots < W still
\* resolve the dropped partition id to the table.
C25_DroppedPartition ==
    \A W \in 1..published, id \in TableIDs :
        PartitionDroppedAt(W, id) =>
            LET old == TableAt(W - 1, id)
                new == TableAt(W, id)
            IN  /\ \A pid \in new.Parts :
                      /\ PartitionEntry(W, pid, id, FALSE) \in pid2tid
                      /\ PartitionEntry(W, pid, id, TRUE) \notin pid2tid
                /\ \A pid \in old.Parts \ new.Parts :
                      /\ PartitionEntry(W, pid, id, TRUE) \in pid2tid
                      /\ PartitionEntry(W, pid, id, FALSE) \notin pid2tid
                /\ \A U \in W..published :
                      Unaltered(W, U, id, new) =>
                          /\ \A pid \in new.Parts :
                                LET a == PartitionAnswer(Data, U, pid) IN
                                a.tbl = new /\ a.def = pid
                          /\ \A pid \in old.Parts \ new.Parts :
                                PartitionAnswer(Data, U, pid)
                                    = [tbl |-> NoTable, def |-> 0, db |-> NoDB]
                /\ \A U \in 0..(W - 1) :
                      Unaltered(U, W - 1, id, old) =>
                          \A pid \in old.Parts \ new.Parts :
                              LET a == PartitionAnswer(Data, U, pid) IN
                              a.tbl = old /\ a.def = pid

\* The diff of version W dropped a partition of a table and left another;
\* W and W - 1 are published snapshots and the table was not altered since.
C25_Witness ==
    \E W \in 2..published, id \in TableIDs :
        /\ PartitionDroppedAt(W, id)
        /\ Unaltered(W, published, id, TableAt(W, id))
        /\ \E pid \in TableAt(W, id).Parts :
              PartitionAnswer(Data, published, pid).def = pid
        /\ \E pid \in TableAt(W - 1, id).Parts \ TableAt(W, id).Parts :
              /\ PartitionAnswer(Data, published, pid).tbl = NoTable
              /\ PartitionAnswer(Data, W - 1, pid).def = pid

----------------------------------------------------------------------------
(* The table cache as the lookups use it (SpecCache).                       *)

IsLookup(l) == l.op \in {"TableByID", "TableByName"}

\* The snapshot's own key (id, V) of a TableByID call.
FastKey(l) == tableCacheKey(l.key[1], l.V)

\* A lookup that called the metadata KV had missed every key it probes:
\* (id, item.schemaVersion), and for TableByID (id, V) before it.
LoadsOnDoubleMiss ==
    LET l == reads'.last IN
    (reads' # reads /\ IsLookup(l) /\ l.loaded) =>
        /\ ~CacheGet(tableCache, l.key).found
        /\ l.op = "TableByID" => ~CacheGet(tableCache, FastKey(l)).found

\* A successful load leaves its handle under (id, item.schemaVersion).
StoredUnderOldKey ==
    LET l == reads'.last IN
    (reads' # reads /\ IsLookup(l) /\ l.loaded /\ l.ok) =>
        /\ CacheGet(tableCache', l.key).found
        /\ CacheGet(tableCache', l.key).tbl = l.val

\* SchemaTables leaves the cache as it found it.
SchemaTablesNeverInserts ==
    reads'.last.op = "SchemaTables" => tableCache' = tableCache

\* A lookup resolving to the entry a load stored a handle for returns that
\* handle without a fetch.
SameHandle ==
    LET l == reads'.last IN
    (reads' # reads /\ IsLookup(l) /\ l.key \in DOMAIN reads.stored) =>
        /\ ~l.loaded
        /\ l.val = reads.stored[l.key].h

\* The same for TableByName, and for a TableByID whose own key (id, V) is
\* empty or holds that handle.
SameHandleUnlessStale ==
    LET l == reads'.last
        fast == CacheGet(tableCache, FastKey(l))
    IN
    (/\ reads' # reads /\ IsLookup(l) /\ l.key \in DOMAIN reads.stored
     /\ l.op = "TableByID" => (~fast.found \/ fast.tbl = reads.stored[l.key].h)) =>
        /\ ~l.loaded
        /\ l.val = reads.stored[l.key].h

\* C26 as stated: TableByID calls the metadata KV only when both cache keys
\* miss, a loaded handle is stored under (id, item.schemaVersion) so that,
\* absent eviction, every later TableByID or TableByName resolving to the
\* same index entry returns the same handle without a fetch, and
\* SchemaTables never inserts into the cache.
C26_SameHandle ==
    /\ [][LoadsOnDoubleMiss]_vars
    /\ [][StoredUnderOldKey]_vars
    /\ [][SameHandle]_vars
    /\ [][SchemaTablesNeverInserts]_vars

\* C26 amended: TableByID calls the metadata KV only when both cache keys
\* miss, a loaded handle is stored under (id, item.schemaVersion) so that,
\* absent eviction, a later TableByName, or a later TableByID whose own key
\* (id, V) holds no other handle, resolving to the same index entry returns
\* the same handle without a fetch, and SchemaTables never inserts into the
\* cache.
C26_CacheProbes ==
    /\ [][LoadsOnDoubleMiss]_vars
    /\ [][StoredUnderOldKey]_vars
    /\ [][SameHandleUnlessStale]_vars
    /\ [][SchemaTablesNeverInserts]_vars

\* A lookup from another snapshot than the loader's returned the stored
\* handle without a fetch.
C26_Witness ==
    LET l == reads.last IN
    /\ IsLookup(l) /\ l.ok /\ ~l.loaded
    /\ l.key \in DOMAIN reads.stored
    /\ reads.stored[l.key].V # l.V
    /\ l.val = reads.stored[l.key].h

----------------------------------------------------------------------------
(* The table cache against the by-id index (Spec: the applier's calls at    *)
(* the version it applies, its own TableByID among them, and readers at     *)
(* the published versions).                                                 *)

\* The by-id lookup of a snapshot at V for the table id.
VisibleByID(id, V) ==
    search(byID, "compareByID", V,
           [zeroTableItem EXCEPT !.tableID = id, !.schemaVersion = MaxInt64],
           "eqByID")

\* The table of an index entry: the descriptor committed with its version.
EntryTable(itm) == GetTable(itm.schemaVersion, itm.dbID, itm.tableID)

\* The handle cached under key is that of the entry visible to the key's
\* snapshot.
Coherent(key) ==
    LET s == VisibleByID(key[1], key[2]) IN
    /\ s.ok
    /\ ~s.target.tomb
    /\ tableCache[key] # NoTable
    /\ tableCache[key] = EntryTable(s.target)

\* C27: whenever the table cache holds a handle under (tableID, V), the by-id
\* lookup for tableID at V is present and not a tomb and the cached handle
\* is the one of the entry visible at V, so that the fast path of TableByID
\* returns neither a dropped table nor a superseded table version.
C27_CacheCoherent ==
    /\ \A key \in DOMAIN tableCache : Coherent(key)
    /\ \A V \in 1..schemaMetaVersion, id \in TableIDs :
        LET key == tableCacheKey(id, V)
            r == TableByID(Data, V, V, id)
        IN  key \in DOMAIN tableCache =>
                /\ r.ok /\ ~r.loaded
                /\ r.val = EntryTable(VisibleByID(id, V).target)

\* While a diff on an altered table is being applied, the applier's own
\* TableByID has put the handle of the entry it still sees under the key of
\* the version it applies, beside the handle of the superseded entry.
C27_Witness ==
    /\ pending # <<>>
    /\ \E k1 \in DOMAIN tableCache, k2 \in DOMAIN tableCache :
        /\ k1[1] = k2[1]
        /\ k1[2] < k2[2]
        /\ tableCache[k1] # tableCache[k2]
        /\ k2[2] = schemaMetaVersion
        /\ VisibleByID(k2[1], k2[2]).target.schemaVersion < schemaMetaVersion

----------------------------------------------------------------------------
(* The retries of GetTable during a flashback (SpecFlashback).              *)

\* No caller has got anything back from a load.
NoLoadReturned == \A p \in Callers : sf.pc[p] \notin {"fromMeta", "set", "panic"}

\* A caller is inside loadTableInfo, running the loader or waiting for it.
InLoad == \E p \in Callers : sf.pc[p] \in {"getTable", "wait"}

NoPanic == \A p \in Callers : sf.pc[p] # "panic"

\* When the flashback error comes only finitely often, every call returns.
FiniteFlashbackReturns == <>(~sf.flashback) => <>AllDone

\* When it comes forever, no load returns, to its caller or to a waiter.
EndlessFlashbackBlocks == []sf.flashback => [](NoLoadReturned /\ (InLoad => []InLoad))

\* C28: loadTableInfo retries GetTable after every flashback error, without
\* a cap: when the KV returns the error only finitely many times the load
\* eventually returns a handle or an error to all coalesced waiters, and
\* when the KV returns it forever the load and its waiters never return.
C28_FlashbackRetry == FiniteFlashbackReturns /\ EndlessFlashbackBlocks

\* The same where GetTable fails with no other error.
FlashbackRetryUnlessPanic ==
    /\ (<>(~sf.flashback) /\ []NoPanic) => <>AllDone
    /\ EndlessFlashbackBlocks

====
